---- MODULE Spec2Model ----
(***************************************************************************)
(* Model of the meeting-transcription coordinator: the shared `sessions`   *)
(* registry with its three transcript ingestion paths (the WebSocket       *)
(* transcript_line handler in its two implementations, the REST            *)
(* add_transcript route and the provider callback                          *)
(* add_transcript_to_session), the summary trigger with its background     *)
(* summarization threads, and the transcription managers with their audio  *)
(* queues and sender threads.                                              *)
(***************************************************************************)
EXTENDS Integers, Sequences, FiniteSets, TLC

VARIABLES
    impl,           \* which socket_service is registered: "app" (src/app) or "heroku" (src/heroku-backend)
    sessions,       \* the shared dict  sessions / active_sessions : session_id -> session_data
    now,            \* datetime.utcnow(), in seconds
    threads,        \* background generate_summary threads: session_id -> phase -> how many
    lastOp,         \* the last handler that ran and what it did (observation only)
    firedAt,        \* session_id -> final counts at which the summary trigger fired (observation only)
    provider,       \* which transcription manager is installed: "assemblyai" or "deepgram"
    connections,    \* manager.connections : session_id -> connection info
    audio_queues,   \* manager.audio_queues : session_id -> queue.Queue contents
    conns,          \* the connection objects created so far (ws / dg_connection), by number
    senders,        \* the _stream_audio threads that are running: a set of records
    enders,         \* the end_session calls in progress: session_id -> where the call is
    ended,          \* sessions whose last end_session has returned, with no start since (observation only)
    audioLog,       \* what the last send_audio / send on a connection did (observation only)
    callbacks,      \* provider messages delivered so far, and their callback threads still to run
    rooms,          \* Socket.IO rooms: room name (a session id) -> the clients that joined it
    inbox,          \* what each subscribed client has received, in order
    emits,          \* the events the last handler or thread step sent out (observation only)
    summaryCall,    \* one SalesforceModelsService.generate_meeting_summary call: where it is
    capture         \* the desktop client's AudioCapture object and the threads that use it

regVars   == <<impl, sessions, now, threads, lastOp, firedAt>>
audioVars == <<provider, connections, audio_queues, conns, senders, enders, ended, audioLog,
               callbacks>>
hubVars   == <<rooms, inbox, emits>>
vars      == <<regVars, audioVars, hubVars, summaryCall, capture>>

----------------------------------------------------------------------------
(* Bounds of the exploration *)

MaxLines == 3          \* transcript lines over all sessions, ingestion specification
MaxFinals == 25        \* final lines of the session, cadence specification
MaxInterims == 1       \* interim lines of the session, cadence and summarization specifications
MaxTicks == 1          \* minutes the clock advances, cadence specification
MaxSummaryLines == 10  \* lines of the session, summarization specification
MaxThreads == 2        \* summarization threads alive at once
MaxConns == 2          \* provider connections created in one run, audio specification
MaxQueue == 2          \* chunks waiting in one audio queue, audio specification
MaxLifeLines == 2      \* transcript lines of the session, lifecycle specification
MaxMessages == 2       \* provider messages delivered, callback specification
MaxHubLines == 4       \* transcript lines stored, subscription specification
MaxAccepted == 102     \* chunks the capture buffer accepts in one run, capture specification
MaxInbox == 3          \* events one subscriber receives, subscription specification

SessionIds == {"s1", "s2"}
Impls == {"app", "heroku"}

None == "None"      \* Python's None, where a string is expected
NoTime == 0 - 1     \* Python's None, where a timestamp is expected (timestamps are >= 0)

----------------------------------------------------------------------------
(* Transcript text.  A text is a sequence of characters; " " is whitespace. *)

EmptyText == << >>
OneWord   == <<"a">>
TwoWords  == <<"a", " ", "b">>
Texts     == {OneWord, TwoWords}

\* len(text.split()): the number of maximal runs of non-whitespace characters
Words(text) ==
    Cardinality({i \in 1..Len(text) :
                    text[i] # " " /\ (i = 1 \/ text[i-1] = " ")})

\* `not transcript`: the empty string is falsy
Falsy(text) == text = EmptyText

----------------------------------------------------------------------------
(* Transcript entries are dicts; the keys present differ with the path.     *)

HasKey(d, k) == k \in DOMAIN d

\* socket_service.handle_transcript_line: transcript_entry
WsEntry(text, is_final, log) ==
    [transcript |-> text, is_final |-> is_final, sequence |-> Len(log)]

\* api/sessions.add_transcript: transcript_entry ("Manual transcripts are always final")
RestEntry(text, log) ==
    [transcript |-> text, is_final |-> TRUE, sequence |-> Len(log)]

\* api/sessions.add_transcript_to_session: transcript_entry (keys 'text', no
\* 'sequence'); deepgram_timestamp is the 'timestamp' the manager put in the data
CallbackEntry(text, is_final, ts) ==
    [text |-> text, is_final |-> is_final, deepgram_timestamp |-> ts]

\* [t for t in transcripts if t.get('is_final', False)]
FinalIdx(log) == {i \in 1..Len(log) : log[i].is_final}
FinalCount(log) == Cardinality(FinalIdx(log))

RECURSIVE SumWords(_, _)
\* sum(len(t['transcript'].split()) for t in log if i in idx); idx are positions
SumWords(log, idx) ==
    IF idx = {} THEN 0
    ELSE LET i == CHOOSE j \in idx : TRUE
         IN  Words(log[i].transcript) + SumWords(log, idx \ {i})

\* the generator raises KeyError when a visited entry has no 'transcript' key
RaisesKeyError(log, idx) == \E i \in idx : ~HasKey(log[i], "transcript")

----------------------------------------------------------------------------
(* Session records *)

\* session_data['meeting_summary']: absent, the initial dict of the handler, or
\* the dict the summarization returned (which has the keys the provider chose)
NoSummary == [present |-> FALSE, generated |-> FALSE,
              hasFinalTranscriptCount |-> FALSE, finalTranscriptCount |-> 0]

\* create_session / handle_create_session: session_data
\* stream_active is the key deepgram_active / assemblyai_active ("absent" until
\* a start handler writes it), duration the key 'duration' (NoTime while absent)
NewSession(status, started_at) ==
    [status |-> status, created_at |-> now, started_at |-> started_at,
     ended_at |-> NoTime, transcripts |-> << >>, transcript_count |-> 0,
     word_count |-> 0, oauth_token |-> FALSE, meeting_summary |-> NoSummary,
     stream_active |-> "absent", duration |-> NoTime]

InRegistry(s) == s \in DOMAIN sessions

TotalLines ==
    LET RECURSIVE Sum(_)
        Sum(S) == IF S = {} THEN 0
                  ELSE LET s == CHOOSE x \in S : TRUE
                       IN Len(sessions[s].transcripts) + Sum(S \ {s})
    IN Sum(DOMAIN sessions)

----------------------------------------------------------------------------
(* Names bound at module level in src/app/services/socket_service.py.  The  *)
(* handlers that need the registry import it into a local name; a function  *)
(* that uses `active_sessions` or `sessions` without importing it raises    *)
(* NameError at that statement, inside its try block.                       *)

AppModuleGlobals ==
    {"emit", "join_room", "leave_room", "request", "logging", "get_logger",
     "logger", "register_socket_events", "trigger_meeting_summary", "datetime"}

NameDefined(name) == name \in AppModuleGlobals

----------------------------------------------------------------------------
(* The summary trigger *)

\* int(x / y) for y > 0: Python's int() truncates toward zero
TruncDiv(x, y) == IF x >= 0 THEN x \div y ELSE -((-x) \div y)

\* heroku socket_service._get_meeting_duration_minutes
get_meeting_duration_minutes(session_data) ==
    IF session_data.started_at = NoTime THEN 0
    ELSE LET end_time == IF session_data.ended_at # NoTime
                         THEN session_data.ended_at ELSE now
         IN  TruncDiv(end_time - session_data.started_at, 60)

SummaryFrequency_NoLongTier(meeting_duration_minutes) ==
    IF meeting_duration_minutes <= 30 THEN 5 ELSE 10

\* heroku socket_service._should_update_summary: the adaptive frequency
SummaryFrequency(meeting_duration_minutes) ==
    IF meeting_duration_minutes <= 30 THEN 5
    ELSE IF meeting_duration_minutes <= 60 THEN 10
    ELSE 15

\* mutants of SummaryFrequency / _should_update_summary
should_update_summary_Always(session_data, final_count) == TRUE

should_update_summary_OffByOne(session_data, final_count) ==
    IF final_count <= 5 THEN FALSE
    ELSE final_count %
           SummaryFrequency(get_meeting_duration_minutes(session_data)) = 0

\* heroku socket_service._should_update_summary
should_update_summary(session_data, final_count) ==
    IF final_count < 5 THEN FALSE
    ELSE final_count %
           SummaryFrequency(get_meeting_duration_minutes(session_data)) = 0

\* src/app socket_service.handle_transcript_line: "every 5 final transcripts"
AutoTriggerApp(final_count) == final_count > 0 /\ final_count % 5 = 0

\* mutant: the counts and the trigger moved out of `if is_final:`
EvaluatesTrigger_Always(is_final) == TRUE

\* both handle_transcript_line: the counts and the trigger sit under `if is_final:`
EvaluatesTrigger(is_final) == is_final

\* seconds since started_at (NoTime when the session was never started)
Elapsed(session_data) ==
    IF session_data.started_at = NoTime THEN NoTime
    ELSE now - session_data.started_at

----------------------------------------------------------------------------
(* src/app socket_service.trigger_meeting_summary, up to the provider call *)

RECURSIVE JoinFinal(_, _)
\* ' '.join([t.get('transcript', '') for t in final_transcripts]), from position i on
JoinFinal(log, i) ==
    IF i > Len(log) THEN << >>
    ELSE IF ~log[i].is_final THEN JoinFinal(log, i + 1)
    ELSE LET txt  == IF HasKey(log[i], "transcript") THEN log[i].transcript ELSE << >>
             rest == JoinFinal(log, i + 1)
             last == \A j \in (i+1)..Len(log) : ~log[j].is_final
         IN  IF last THEN txt ELSE txt \o <<" ">> \o rest

\* len(text.strip())
StripLen(text) ==
    LET solid == {i \in 1..Len(text) : text[i] # " "}
    IN  IF solid = {} THEN 0
        ELSE LET lo == CHOOSE i \in solid : \A j \in solid : i <= j
                 hi == CHOOSE i \in solid : \A j \in solid : i >= j
             IN  hi - lo + 1

\* TRUE iff trigger_meeting_summary gets as far as requests.post
TriggerMeetingSummaryRequests(reg, s) ==
    /\ NameDefined("active_sessions")
    /\ s \in DOMAIN reg
    /\ FinalIdx(reg[s].transcripts) # {}
    /\ StripLen(JoinFinal(reg[s].transcripts, 1)) >= 50
    /\ reg[s].oauth_token

----------------------------------------------------------------------------
(* Observation records *)

Op(op, s, is_final, evaluated, fired, final_count, elapsed, requested) ==
    [op |-> op, session |-> s, is_final |-> is_final, evaluated |-> evaluated,
     fired |-> fired, final_count |-> final_count, elapsed |-> elapsed,
     requested |-> requested]

NoOp == Op("init", None, FALSE, FALSE, FALSE, 0, NoTime, FALSE)

NoThreads == [s \in SessionIds |-> [started |-> 0, calling |-> 0]]
ThreadsAlive(s) == threads[s].started + threads[s].calling

----------------------------------------------------------------------------
(* The broadcast side: flask_socketio rooms and emit *)

\* the clients that subscribe to session rooms; the desktop client that pushes
\* lines, audio and commands is a different connection
Subscribers == {"c1", "c2"}
Pusher == "pusher"

\* an emit call: emit(event, {... 'session_id': session ...}, room=session_id)
\* goes to the room, emit(event, {...}) goes back to the sender (request.sid)
ToRoom(event, s)   == [event |-> event, session |-> s, to |-> "room"]
ToSender(event, s) == [event |-> event, session |-> s, to |-> "sender"]

\* emit(..., room=None) falls back to the sender
ToRoomOf(event, s) == IF s = None THEN ToSender(event, s) ELSE ToRoom(event, s)

\* flask_socketio.emit reads flask.request: in a background thread there is no
\* request context, the call raises RuntimeError and nothing is sent
HasRequestContext(where) == where = "handler"

\* the events that go out when the code at `where` emits them
Sent(where, events) == IF HasRequestContext(where) THEN events ELSE << >>

\* what client c receives of the events a handler run for `sender` sent out,
\* with the rooms as they are at the emit
Delivered(c, sender, events, members) ==
    SelectSeq(events,
              LAMBDA e : \/ e.to = "sender" /\ sender = c
                         \/ e.to = "room" /\ c \in members[e.session])

\* the emit calls of one handler run (rooms as they stand before the step)
Emit(sender, events) ==
    /\ emits' = events
    /\ inbox' = [c \in Subscribers |-> inbox[c] \o Delivered(c, sender, events, rooms)]

\* no client has joined any room; nothing has been sent
HubInit ==
    /\ rooms = [s \in SessionIds |-> {}]
    /\ inbox = [c \in Subscribers |-> << >>]
    /\ emits = << >>

\* what requests.post to the Models API can come back with: a 200/201, another
\* status code, or a RequestException
ApiResponses == {"ok", "status", "error"}

\* src/app socket_service.trigger_meeting_summary: its emit calls, in order
TriggerMeetingSummaryEmits(reg, s, response) ==
    IF ~NameDefined("active_sessions")
    THEN <<ToRoom("summary_error", s)>>        \* NameError at line 454, except at 542
    ELSE IF s \notin DOMAIN reg THEN << >>
    ELSE IF FinalIdx(reg[s].transcripts) = {} THEN << >>
    ELSE IF StripLen(JoinFinal(reg[s].transcripts, 1)) < 50 THEN << >>
    ELSE IF ~reg[s].oauth_token THEN <<ToRoom("summary_error", s)>>
    ELSE IF response = "ok" THEN <<ToRoom("summary_generated", s)>>
    ELSE <<ToRoom("summary_error", s)>>

----------------------------------------------------------------------------
(* Session creation: api/sessions.create_session, handle_create_session *)

\* the WebSocket handler answers with session_created, the REST route with JSON
CreatedVia == {"ws", "rest"}

CreateSession(s) ==
    /\ ~InRegistry(s)
    /\ sessions' = (s :> NewSession("created", NoTime)) @@ sessions
    /\ lastOp' = Op("create", s, FALSE, FALSE, FALSE, 0, NoTime, FALSE)
    /\ \E via \in CreatedVia :
          Emit(Pusher, IF via = "ws" THEN <<ToSender("session_created", s)>> ELSE << >>)
    /\ UNCHANGED <<impl, now, threads, firedAt, audioVars, rooms, summaryCall, capture>>

----------------------------------------------------------------------------
(* transcript_line, src/app/services/socket_service.py *)

\* the session record the handler works on: created on the fly when unknown
AppSessionFor(s) ==
    IF InRegistry(s) THEN sessions[s] ELSE NewSession("active", now)

HandleTranscriptLineApp(s, text, is_final) ==
    /\ impl = "app"
    /\ IF Falsy(text)
       THEN \* emit('error', ...); return
            /\ lastOp' = Op("ws_rejected", s, is_final, FALSE, FALSE, 0, NoTime, FALSE)
            /\ Emit(Pusher, <<ToSender("error", s)>>)
            /\ UNCHANGED <<sessions, firedAt>>
       ELSE LET sd    == AppSessionFor(s)
                log   == Append(sd.transcripts, WsEntry(text, is_final, sd.transcripts))
                sd1   == [sd EXCEPT !.transcripts = log, !.transcript_count = Len(log)]
                eval  == EvaluatesTrigger(is_final)
                \* the word count generator raises KeyError: handler ends in `except`
                raise == eval /\ RaisesKeyError(log, FinalIdx(log))
                sd2   == IF eval /\ ~raise
                         THEN [sd1 EXCEPT !.word_count = SumWords(log, FinalIdx(log))]
                         ELSE sd1
                final_count == FinalCount(log)
                fire  == eval /\ ~raise /\ AutoTriggerApp(final_count)
                reg   == (s :> sd2) @@ sessions
            IN  /\ sessions' = reg
                /\ firedAt' = IF fire
                              THEN [firedAt EXCEPT ![s] = @ \cup {final_count}]
                              ELSE firedAt
                /\ lastOp' = Op("ws", s, is_final, eval /\ ~raise, fire, final_count,
                                Elapsed(sd2),
                                fire /\ TriggerMeetingSummaryRequests(reg, s))
                \* trigger_meeting_summary runs, and emits, before the handler's
                \* own emit('transcript_update'); a KeyError ends in emit('error')
                /\ \E response \in ApiResponses :
                      Emit(Pusher,
                           IF raise THEN <<ToSender("error", s)>>
                           ELSE (IF fire THEN TriggerMeetingSummaryEmits(reg, s, response)
                                 ELSE << >>)
                                \o <<ToRoom("transcript_update", s)>>)
    /\ UNCHANGED <<impl, now, threads, audioVars, rooms, summaryCall, capture>>

----------------------------------------------------------------------------
(* transcript_line, src/heroku-backend/app/services/socket_service.py *)

\* _generate_meeting_summary_async: thread.start()
SpawnSummaryThread(s) == [threads EXCEPT ![s].started = @ + 1]

HandleTranscriptLineHeroku(s, text, is_final) ==
    /\ impl = "heroku"
    /\ IF Falsy(text)
       THEN /\ lastOp' = Op("ws_rejected", s, is_final, FALSE, FALSE, 0, NoTime, FALSE)
            /\ Emit(Pusher, <<ToSender("error", s)>>)
            /\ UNCHANGED <<sessions, firedAt, threads>>
       ELSE IF ~InRegistry(s)
       THEN \* nothing is stored; the line is only broadcast
            /\ lastOp' = Op("ws_unknown", s, is_final, FALSE, FALSE, 0, NoTime, FALSE)
            /\ Emit(Pusher, <<ToRoom("transcript_update", s)>>)
            /\ UNCHANGED <<sessions, firedAt, threads>>
       ELSE LET sd    == sessions[s]
                log   == Append(sd.transcripts, WsEntry(text, is_final, sd.transcripts))
                sd1   == [sd EXCEPT !.transcripts = log, !.transcript_count = Len(log)]
                eval  == EvaluatesTrigger(is_final)
                raise == eval /\ RaisesKeyError(log, FinalIdx(log))
                final_count == FinalCount(log)
                sd2   == IF eval /\ ~raise
                         THEN [sd1 EXCEPT
                                 !.word_count = SumWords(log, FinalIdx(log)),
                                 !.meeting_summary =
                                     [@ EXCEPT !.present = TRUE,
                                               !.hasFinalTranscriptCount = TRUE,
                                               !.finalTranscriptCount = final_count]]
                         ELSE sd1
                fire  == eval /\ ~raise /\ should_update_summary(sd2, final_count)
            IN  /\ ~fire \/ ThreadsAlive(s) < MaxThreads
                /\ sessions' = [sessions EXCEPT ![s] = sd2]
                /\ firedAt' = IF fire
                              THEN [firedAt EXCEPT ![s] = @ \cup {final_count}]
                              ELSE firedAt
                /\ threads' = IF fire THEN SpawnSummaryThread(s) ELSE threads
                /\ lastOp' = Op("ws", s, is_final, eval /\ ~raise, fire, final_count,
                                Elapsed(sd2), FALSE)
                /\ Emit(Pusher, IF raise THEN <<ToSender("error", s)>>
                                ELSE <<ToRoom("transcript_update", s)>>)
    /\ UNCHANGED <<impl, now, audioVars, rooms, summaryCall, capture>>

HandleTranscriptLine(s, text, is_final) ==
    \/ HandleTranscriptLineApp(s, text, is_final)
    \/ HandleTranscriptLineHeroku(s, text, is_final)

----------------------------------------------------------------------------
(* REST: POST /<session_id>/transcript, api/sessions.add_transcript *)

AddTranscript(s, text) ==
    /\ InRegistry(s)          \* else 404
    /\ LET sd    == sessions[s]
           log   == Append(sd.transcripts, RestEntry(text, sd.transcripts))
           sd1   == [sd EXCEPT !.transcripts = log, !.transcript_count = Len(log)]
           \* sum(len(t['transcript'].split()) for t in session_data['transcripts'])
           raise == RaisesKeyError(log, 1..Len(log))
           sd2   == IF raise THEN sd1
                    ELSE [sd1 EXCEPT !.word_count = SumWords(log, 1..Len(log))]
       IN  /\ sessions' = [sessions EXCEPT ![s] = sd2]
           /\ lastOp' = Op("rest", s, TRUE, FALSE, FALSE, FinalCount(log),
                           Elapsed(sd2), FALSE)
           /\ Emit(Pusher, << >>)
    /\ UNCHANGED <<impl, now, threads, firedAt, audioVars, rooms, summaryCall, capture>>

----------------------------------------------------------------------------
(* Provider callback: api/sessions.add_transcript_to_session *)

\* the body of add_transcript_to_session; its emit('transcript_update') runs
\* in a callback thread, outside any request context, and raises RuntimeError
\* into the function's own except clause
CallbackAppend(s, text, is_final, ts) ==
    /\ InRegistry(s)          \* else: warning, return
    /\ LET sd    == sessions[s]
           entry == CallbackEntry(text, is_final, ts)
           log   == Append(sd.transcripts, entry)
           sd1   == [sd EXCEPT !.transcripts = log]
           sd2   == IF entry.is_final
                    THEN [sd1 EXCEPT !.transcript_count = @ + 1,
                                     !.word_count = @ + Words(entry.text)]
                    ELSE sd1
       IN  /\ sessions' = [sessions EXCEPT ![s] = sd2]
           /\ lastOp' = Op("callback", s, is_final, FALSE, FALSE, FinalCount(log),
                           Elapsed(sd2), FALSE)
           /\ Emit(Pusher, Sent("thread", <<ToRoom("transcript_update", s)>>))

\* a provider line whose data carries no arrival time ('timestamp': 0)
AddTranscriptToSession(s, text, is_final) ==
    /\ CallbackAppend(s, text, is_final, 0)
    /\ UNCHANGED <<impl, now, threads, firedAt, audioVars, rooms, summaryCall, capture>>

----------------------------------------------------------------------------
(* session_token *)

\* heroku: `from .. import sessions` precedes the test; src/app: the handler
\* tests `session_id in sessions` with no such name in scope (NameError)
HandleSessionToken(s) ==
    /\ IF impl = "heroku" \/ NameDefined("sessions")
       THEN sessions' = IF InRegistry(s)
                        THEN [sessions EXCEPT ![s].oauth_token = TRUE]
                        ELSE sessions
       ELSE UNCHANGED sessions
    /\ lastOp' = Op("token", s, FALSE, FALSE, FALSE, 0, NoTime, FALSE)
    /\ Emit(Pusher, IF impl = "heroku"
                    THEN IF InRegistry(s) THEN <<ToSender("token_received", s)>>
                         ELSE <<ToSender("token_error", s)>>
                    ELSE IF NameDefined("sessions") THEN <<ToSender("token_stored", s)>>
                         ELSE <<ToSender("token_error", s)>>)
    /\ UNCHANGED <<impl, now, threads, firedAt, audioVars, rooms, summaryCall, capture>>

----------------------------------------------------------------------------
(* manual_summary, src/app/services/socket_service.py only *)

HandleManualSummary(s) ==
    /\ impl = "app"
    /\ LET reached   == NameDefined("active_sessions")   \* else NameError at line 414
           final_count == IF reached /\ InRegistry(s)
                          THEN FinalCount(sessions[s].transcripts) ELSE 0
       IN  /\ lastOp' = Op("manual", s, FALSE, FALSE, FALSE, final_count, NoTime,
                           reached /\ TriggerMeetingSummaryRequests(sessions, s))
           /\ \E response \in ApiResponses :
                 Emit(Pusher, IF reached
                              THEN TriggerMeetingSummaryEmits(sessions, s, response)
                              ELSE <<ToSender("summary_error", s)>>)
    /\ UNCHANGED <<impl, sessions, now, threads, firedAt, audioVars, rooms, summaryCall, capture>>

----------------------------------------------------------------------------
(* The background thread of _generate_meeting_summary_async (heroku) *)

\* generate_summary, up to models_service.generate_meeting_summary(...)
ThreadPrepare(s) ==
    /\ threads[s].started > 0
    /\ LET sd == sessions[s]
           final_count == FinalCount(sd.transcripts)
           call == final_count > 0 /\ sd.oauth_token
       IN  /\ threads' = [threads EXCEPT ![s].started = @ - 1,
                                         ![s].calling = @ + (IF call THEN 1 ELSE 0)]
           /\ lastOp' = Op("thread_call", s, FALSE, FALSE, FALSE, final_count,
                           Elapsed(sd), call)
           /\ Emit(Pusher, << >>)
    /\ UNCHANGED <<impl, sessions, now, firedAt, audioVars, rooms, summaryCall, capture>>

\* session_data['meeting_summary'] = summary_result, then its 'lastUpdated':
\* the provider's dict replaces the stored one, finalTranscriptCount included
ProviderSummary ==
    [present |-> TRUE, generated |-> TRUE,
     hasFinalTranscriptCount |-> FALSE, finalTranscriptCount |-> 0]

StoreSummaryResult_Always(reg, s, ok) ==
    [reg EXCEPT ![s].meeting_summary = ProviderSummary]

\* `if summary_result:` ... `else: logger.error(...)`
StoreSummaryResult(reg, s, ok) ==
    IF ok THEN [reg EXCEPT ![s].meeting_summary = ProviderSummary] ELSE reg

\* generate_meeting_summary returned: a summary (ok) or None
ThreadFinish(s, ok) ==
    /\ threads[s].calling > 0
    /\ threads' = [threads EXCEPT ![s].calling = @ - 1]
    /\ sessions' = StoreSummaryResult(sessions, s, ok)
    /\ lastOp' = Op("thread_done", s, FALSE, FALSE, FALSE,
                    FinalCount(sessions[s].transcripts), Elapsed(sessions[s]), FALSE)
    /\ Emit(Pusher, IF ok THEN Sent("thread", <<ToRoom("meeting_summary_update", s)>>)
                    ELSE << >>)
    /\ UNCHANGED <<impl, now, firedAt, audioVars, rooms, summaryCall, capture>>

----------------------------------------------------------------------------
(* The clock *)

BaseTime == 4 * 3600

Tick ==
    /\ now < BaseTime + 60 * MaxTicks
    /\ now' = now + 60
    /\ UNCHANGED <<impl, sessions, threads, lastOp, firedAt, audioVars, hubVars, summaryCall, capture>>

----------------------------------------------------------------------------
(* The transcription manager at rest *)

EmptyDict == [x \in {} |-> None]

\* observation record of the audio path
AudioOp(op, s, result, queued, after_end, conn_state) ==
    [op |-> op, session |-> s, result |-> result, queued |-> queued,
     after_end |-> after_end, conn_state |-> conn_state]

NoAudioOp == AudioOp("init", None, FALSE, 0, FALSE, None)

\* no provider message yet, no callback thread
NoCallbacks == [delivered |-> 0, pending |-> {}]

\* no summarization call is running
NoSummaryCall == [pc |-> "idle", attempt |-> 0, token |-> FALSE, checked |-> FALSE,
                  jwts |-> 0, calls |-> 0, waits |-> 0, outcomes |-> << >>,
                  result |-> None]

\* AudioCapture.__init__: not capturing, an empty buffer, no stream; no callback
\* is running (cb = 0), no start_capture or stop_capture call is under way;
\* `accepted` numbers the chunks in the order they are appended; `last` is
\* what the last get_audio_chunk returned (chunk numbers start at 1)
NoCapture ==
    [is_capturing |-> FALSE, audio_queue |-> << >>, stream |-> "none", cb |-> 0,
     ctl |-> "idle", accepted |-> 0, last |-> None, op |-> "init"]

\* the broadcast side, the summarization service and the capture object before
\* anything has run
RestInit ==
    /\ HubInit
    /\ summaryCall = NoSummaryCall
    /\ capture = NoCapture

\* AssemblyAIManager.__init__ / DeepgramManager.__init__
ManagerInit ==
    /\ connections = EmptyDict
    /\ audio_queues = EmptyDict
    /\ conns = << >>
    /\ senders = {}
    /\ enders = EmptyDict
    /\ ended = {}
    /\ audioLog = NoAudioOp
    /\ callbacks = NoCallbacks

AudioIdle ==
    /\ provider = "assemblyai"
    /\ ManagerInit

----------------------------------------------------------------------------
(* Ingestion: an empty registry, lines through all three paths *)

InitIngest ==
    /\ impl \in Impls
    /\ sessions = EmptyDict
    /\ now = BaseTime
    /\ threads = NoThreads
    /\ lastOp = NoOp
    /\ firedAt = [s \in SessionIds |-> {}]
    /\ AudioIdle
    /\ RestInit

NextIngest ==
    \/ \E s \in SessionIds : CreateSession(s)
    \/ \E s \in SessionIds, text \in Texts \cup {EmptyText}, is_final \in BOOLEAN :
          TotalLines < MaxLines /\ HandleTranscriptLineApp(s, text, is_final)
    \/ \E s \in SessionIds, text \in Texts \cup {EmptyText}, is_final \in BOOLEAN :
          TotalLines < MaxLines /\ HandleTranscriptLineHeroku(s, text, is_final)
    \/ \E s \in SessionIds, text \in Texts \cup {EmptyText} :
          TotalLines < MaxLines /\ AddTranscript(s, text)
    \/ \E s \in SessionIds, text \in Texts, is_final \in BOOLEAN :
          TotalLines < MaxLines /\ AddTranscriptToSession(s, text, is_final)

SpecIngest == InitIngest /\ [][NextIngest]_vars

----------------------------------------------------------------------------
(* Cadence: one session, started some time ago, fed through transcript_line *)

InterimCount(log) == Len(log) - FinalCount(log)

\* a session that handle_start_session started `offset` seconds ago
StartedSession(offset) ==
    [NewSession("active", BaseTime - offset) EXCEPT !.created_at = BaseTime - offset]

\* 10 min, 30 min 30 s, 60 min 30 s, 90 min
StartOffsets == {600, 1830, 3630, 5400}

\* the line bound of a scenario: so many finals, so many interims
LineAllowed(s, is_final, maxFinals) ==
    LET log == IF InRegistry(s) THEN sessions[s].transcripts ELSE << >>
    IN  IF is_final THEN FinalCount(log) < maxFinals
        ELSE InterimCount(log) < MaxInterims

InitCadence ==
    /\ impl \in Impls
    /\ now = BaseTime
    /\ \/ \E offset \in StartOffsets : sessions = ("s1" :> StartedSession(offset))
       \/ sessions = ("s1" :> NewSession("created", NoTime))
    /\ threads = NoThreads
    /\ lastOp = NoOp
    /\ firedAt = [s \in SessionIds |-> {}]
    /\ AudioIdle
    /\ RestInit

NextCadence ==
    \/ \E is_final \in BOOLEAN :
          /\ LineAllowed("s1", is_final, MaxFinals)
          /\ HandleTranscriptLineApp("s1", OneWord, is_final)
    \/ \E is_final \in BOOLEAN :
          /\ LineAllowed("s1", is_final, MaxFinals)
          /\ HandleTranscriptLineHeroku("s1", OneWord, is_final)
    \/ ThreadPrepare("s1")
    \/ Tick

SpecCadence == InitCadence /\ [][NextCadence]_vars

----------------------------------------------------------------------------
(* Summarization: one started session, its token, its summary threads *)

InitSummary ==
    /\ impl \in Impls
    /\ now = BaseTime
    /\ sessions = ("s1" :> StartedSession(600))
    /\ threads = NoThreads
    /\ lastOp = NoOp
    /\ firedAt = [s \in SessionIds |-> {}]
    /\ AudioIdle
    /\ RestInit

NextSummary ==
    \/ \E is_final \in BOOLEAN :
          /\ LineAllowed("s1", is_final, MaxSummaryLines)
          /\ HandleTranscriptLineApp("s1", OneWord, is_final)
    \/ \E is_final \in BOOLEAN :
          /\ LineAllowed("s1", is_final, MaxSummaryLines)
          /\ HandleTranscriptLineHeroku("s1", OneWord, is_final)
    \/ HandleSessionToken("s1")
    \/ HandleManualSummary("s1")
    \/ ThreadPrepare("s1")
    \/ \E ok \in BOOLEAN : ThreadFinish("s1", ok)

SpecSummary == InitSummary /\ [][NextSummary]_vars

----------------------------------------------------------------------------
(* The transcription managers: src/app/services/assemblyai_service.py and   *)
(* src/app/services/deepgram_service.py                                     *)

Providers == {"assemblyai", "deepgram"}

\* an audio chunk as the client sends it: valid base64, or not
GoodChunk == "chunk"
BadChunk  == "not-base64"

\* del d[k]
Without(d, k) == [x \in (DOMAIN d) \ {k} |-> d[x]]
\* d[k] = v
With(d, k, v) == (k :> v) @@ Without(d, k)

\* a connection object: the session id its callbacks closed over, the state of
\* its socket ("connecting", "open", "dropped": closed by the provider or the
\* network, "closed": closed by end_session), and whether its close callback
\* (on_close) is still to run, and whether the start_session call that created it
\* has started its threads but has yet to store it in `connections`
NewConn(s, state) ==
    [session |-> s, state |-> state, on_close |-> "none", storing |-> FALSE]

\* ws.sock and ws.sock.connected
Connected(id) == conns[id].state = "open"

\* on an audio-path step the registry stands still
RegistryIdle == UNCHANGED <<regVars, provider, callbacks, hubVars, summaryCall, capture>>

----------------------------------------------------------------------------
(* start_session *)

\* what can happen to the handshake while start_session sleeps its second
Handshakes == {"pending", "opened", "failed"}

\* the connection object as start_session leaves it
ConnAfterWait(s, handshake) ==
    [session |-> s,
     state |-> CASE handshake = "pending" -> "connecting"
                 [] handshake = "opened"  -> "open"
                 [] handshake = "failed"  -> "dropped",
     on_close |-> IF handshake = "failed" THEN "pending" ELSE "none",
     storing |-> FALSE]

\* start_session's return value after the wait: it logs whether
\* ws.sock.connected and returns True either way
AssemblyStartResult(handshake) == TRUE

\* AssemblyAIManager.start_session: the queue, the WebSocketApp, its thread,
\* the connection entry, the one-second wait (during which on_open may already
\* have started the sender thread), the return value
StartSessionAssembly(s, handshake) ==
    /\ provider = "assemblyai"
    /\ s \notin DOMAIN enders
    /\ IF s \in DOMAIN connections
       THEN \* "Session already active": return True
            /\ handshake = "pending"
            /\ audioLog' = AudioOp("start", s, TRUE, 0, s \in ended,
                                   conns[connections[s]].state)
            /\ UNCHANGED <<connections, audio_queues, conns, senders, ended>>
       ELSE /\ Len(conns) < MaxConns
            /\ audio_queues' = With(audio_queues, s, << >>)
            /\ conns' = Append(conns, ConnAfterWait(s, handshake))
            /\ connections' = With(connections, s, Len(conns) + 1)
            /\ senders' = IF handshake = "opened"
                          THEN senders \cup
                               {[conn |-> Len(conns) + 1, session |-> s, pc |-> "check"]}
                          ELSE senders
            /\ ended' = ended \ {s}
            /\ audioLog' = AudioOp("start", s, AssemblyStartResult(handshake), 0,
                                   s \in ended, ConnAfterWait(s, handshake).state)
    /\ UNCHANGED enders
    /\ RegistryIdle

\* DeepgramManager.start_session; started: what dg_connection.start(options) does
\* ("ok", "false": returns False, "raise": an exception on the way)
DeepgramStart(s, started) ==
    /\ provider = "deepgram"
    /\ s \notin DOMAIN enders
    /\ IF s \in DOMAIN connections
       THEN /\ audioLog' = AudioOp("start", s, TRUE, 0, s \in ended, None)
            /\ UNCHANGED <<connections, audio_queues, conns, senders, ended>>
       ELSE /\ Len(conns) < MaxConns
            /\ conns' = Append(conns, NewConn(s, IF started = "ok" THEN "open" ELSE "dropped"))
            /\ audio_queues' = IF started = "raise"
                               THEN Without(audio_queues, s)     \* "Clean up on failure"
                               ELSE With(audio_queues, s, << >>)
            /\ IF started = "ok"
               THEN /\ senders' = senders \cup
                          {[conn |-> Len(conns) + 1, session |-> s, pc |-> "check"]}
                    /\ connections' = With(connections, s, Len(conns) + 1)
               ELSE UNCHANGED <<senders, connections>>
            /\ ended' = ended \ {s}
            /\ audioLog' = AudioOp("start", s, started = "ok", 0, s \in ended,
                                   IF started = "ok" THEN "open" ELSE "dropped")
    /\ UNCHANGED enders

\* what start_session returns
DeepgramStartResult(s, started) == s \in DOMAIN connections \/ started = "ok"

StartSessionDeepgram(s, started) ==
    /\ DeepgramStart(s, started)
    /\ RegistryIdle

----------------------------------------------------------------------------
(* The connection's own events *)

\* AssemblyAI on_open: the handshake succeeded; start the audio streaming thread
OnOpen(id) ==
    /\ provider = "assemblyai"
    /\ id \in 1..Len(conns)
    /\ conns[id].state = "connecting"
    /\ conns' = [conns EXCEPT ![id].state = "open"]
    /\ senders' = senders \cup {[conn |-> id, session |-> conns[id].session, pc |-> "check"]}
    /\ UNCHANGED <<connections, audio_queues, enders, ended, audioLog>>
    /\ RegistryIdle

\* the provider or the network closes the connection (failed handshake, error, drop)
ProviderClose(id) ==
    /\ id \in 1..Len(conns)
    /\ conns[id].state \in {"connecting", "open"}
    /\ conns' = [conns EXCEPT ![id].state = "dropped",
                              ![id].on_close = IF provider = "assemblyai"
                                               THEN "pending" ELSE "none"]
    /\ UNCHANGED <<connections, audio_queues, senders, enders, ended, audioLog>>
    /\ RegistryIdle

OnClose_ClearsAll(id) ==
    /\ provider = "assemblyai"
    /\ id \in 1..Len(conns)
    /\ conns[id].on_close = "pending"
    /\ conns' = [conns EXCEPT ![id].on_close = "done"]
    /\ connections' = EmptyDict
    /\ audio_queues' = EmptyDict
    /\ UNCHANGED <<senders, enders, ended, audioLog>>
    /\ RegistryIdle

\* AssemblyAI on_close, run by the connection's thread once the socket is closed:
\* "Clean up connection data" of the session id it closed over.
\* (Deepgram's on_close only logs.)
OnClose(id) ==
    /\ provider = "assemblyai"
    /\ id \in 1..Len(conns)
    /\ conns[id].on_close = "pending"
    /\ conns' = [conns EXCEPT ![id].on_close = "done"]
    /\ connections' = Without(connections, conns[id].session)
    /\ audio_queues' = Without(audio_queues, conns[id].session)
    /\ UNCHANGED <<senders, enders, ended, audioLog>>
    /\ RegistryIdle

----------------------------------------------------------------------------
(* end_session, statement by statement: other threads run in between *)

\* the call returns
EndReturns(s) ==
    /\ enders' = Without(enders, s)
    /\ ended' = ended \cup {s}

\* both managers: "if session_id in self.connections", and the read of the entry;
\* Deepgram pops the entry here, AssemblyAI leaves it in place
EndSessionBegin(s) ==
    /\ s \notin DOMAIN enders
    /\ IF s \in DOMAIN connections
       THEN /\ enders' = With(enders, s,
                   [conn |-> connections[s],
                    pc |-> IF provider = "assemblyai" THEN "test" ELSE "finish"])
            /\ connections' = IF provider = "deepgram"
                              THEN Without(connections, s) ELSE connections
            /\ UNCHANGED ended
       ELSE \* "Session not found for ending"
            /\ ended' = ended \cup {s}
            /\ UNCHANGED <<enders, connections>>
    /\ UNCHANGED <<audio_queues, conns, senders, audioLog>>
    /\ RegistryIdle

\* AssemblyAI: "if ws and ws.sock and ws.sock.connected"
EndSessionTest(s) ==
    /\ provider = "assemblyai"
    /\ s \in DOMAIN enders
    /\ enders[s].pc = "test"
    /\ enders' = [enders EXCEPT ![s].pc =
                     IF Connected(enders[s].conn) THEN "terminate" ELSE "close"]
    /\ UNCHANGED <<connections, audio_queues, conns, senders, ended, audioLog>>
    /\ RegistryIdle

\* AssemblyAI: ws.send(Terminate) and the half-second sleep; on a socket closed
\* since the test the send raises, and the except clause only logs
EndSessionTerminate(s) ==
    /\ provider = "assemblyai"
    /\ s \in DOMAIN enders
    /\ enders[s].pc = "terminate"
    /\ IF Connected(enders[s].conn)
       THEN /\ enders' = [enders EXCEPT ![s].pc = "close"]
            /\ UNCHANGED ended
       ELSE EndReturns(s)
    /\ UNCHANGED <<connections, audio_queues, conns, senders, audioLog>>
    /\ RegistryIdle

\* AssemblyAI: ws.close(); the connection's thread will run on_close
EndSessionClose(s) ==
    /\ provider = "assemblyai"
    /\ s \in DOMAIN enders
    /\ enders[s].pc = "close"
    /\ conns' = IF conns[enders[s].conn].state \in {"dropped", "closed"}
                THEN conns
                ELSE [conns EXCEPT ![enders[s].conn].state = "closed",
                                   ![enders[s].conn].on_close = "pending"]
    /\ enders' = [enders EXCEPT ![s].pc = "cleanup"]
    /\ UNCHANGED <<connections, audio_queues, senders, ended, audioLog>>
    /\ RegistryIdle

\* Deepgram: dg_connection.finish(); raises: whether it throws (the except
\* clause only logs, the queue stays)
EndSessionFinish(s, raises) ==
    /\ provider = "deepgram"
    /\ s \in DOMAIN enders
    /\ enders[s].pc = "finish"
    /\ conns' = IF conns[enders[s].conn].state = "dropped"
                THEN conns
                ELSE [conns EXCEPT ![enders[s].conn].state = "closed"]
    /\ IF raises
       THEN EndReturns(s)
       ELSE /\ enders' = [enders EXCEPT ![s].pc = "cleanup"]
            /\ UNCHANGED ended
    /\ UNCHANGED <<connections, audio_queues, senders, audioLog>>
    /\ RegistryIdle

\* "Clean up": AssemblyAI deletes the connection entry (KeyError if on_close
\* already did, caught and logged) and then the queue; Deepgram deletes the queue
EndSessionCleanup(s) ==
    /\ s \in DOMAIN enders
    /\ enders[s].pc = "cleanup"
    /\ IF provider = "assemblyai"
       THEN IF s \in DOMAIN connections
            THEN /\ connections' = Without(connections, s)
                 /\ audio_queues' = Without(audio_queues, s)
            ELSE UNCHANGED <<connections, audio_queues>>
       ELSE /\ audio_queues' = Without(audio_queues, s)
            /\ UNCHANGED connections
    /\ EndReturns(s)
    /\ UNCHANGED <<conns, senders, audioLog>>
    /\ RegistryIdle

----------------------------------------------------------------------------
(* send_audio *)

\* queue.Queue() is created without a maxsize: put never blocks and never refuses
QueuePut(q, item) == Append(q, item)

\* what send_audio returns
SendAudioResult(s, chunk) ==
    /\ s \in DOMAIN connections
    /\ s \in DOMAIN audio_queues
    /\ chunk # BadChunk            \* base64.b64decode raises: caught, False

\* the manager's send_audio, as a caller runs it
ManagerSendAudio(s, chunk) ==
    /\ IF SendAudioResult(s, chunk)
       THEN /\ Len(audio_queues[s]) < MaxQueue
            /\ audio_queues' = [audio_queues EXCEPT ![s] = QueuePut(@, chunk)]
       ELSE UNCHANGED audio_queues
    /\ audioLog' = AudioOp("send_audio", s, SendAudioResult(s, chunk),
                           IF s \in DOMAIN audio_queues THEN Len(audio_queues[s]) ELSE 0,
                           s \in ended,
                           IF s \in DOMAIN connections
                           THEN conns[connections[s]].state ELSE None)
    /\ UNCHANGED <<connections, conns, senders, enders, ended>>

SendAudio(s, chunk) ==
    /\ ManagerSendAudio(s, chunk)
    /\ RegistryIdle

----------------------------------------------------------------------------
(* _stream_audio, the sender thread of one connection *)

SenderAt(t, pc) == t \in senders /\ t.pc = pc

SenderMoves(t, pc) == senders' = (senders \ {t}) \cup {[t EXCEPT !.pc = pc]}

SenderEnds(t) == senders' = senders \ {t}

\* "while session_id in self.connections and session_id in self.audio_queues"
SenderCheck(t) ==
    /\ SenderAt(t, "check")
    /\ IF t.session \in DOMAIN connections /\ t.session \in DOMAIN audio_queues
       THEN SenderMoves(t, "get")
       ELSE SenderEnds(t)
    /\ UNCHANGED <<connections, audio_queues, conns, enders, ended, audioLog>>
    /\ RegistryIdle

\* "self.audio_queues[session_id].get(timeout=1.0)": KeyError ends the thread,
\* queue.Empty goes round the loop, a chunk goes on to be sent
SenderGet(t) ==
    /\ SenderAt(t, "get")
    /\ IF t.session \notin DOMAIN audio_queues
       THEN SenderEnds(t) /\ UNCHANGED audio_queues
       ELSE IF audio_queues[t.session] = << >>
            THEN SenderMoves(t, "check") /\ UNCHANGED audio_queues
            ELSE /\ audio_queues' = [audio_queues EXCEPT ![t.session] = Tail(@)]
                 /\ SenderMoves(t, IF provider = "assemblyai" THEN "test" ELSE "send")
    /\ UNCHANGED <<connections, conns, enders, ended, audioLog>>
    /\ RegistryIdle

\* AssemblyAI: "if ws and ws.sock and ws.sock.connected", else discard and break
SenderTest(t) ==
    /\ provider = "assemblyai"
    /\ SenderAt(t, "test")
    /\ IF Connected(t.conn) THEN SenderMoves(t, "send") ELSE SenderEnds(t)
    /\ UNCHANGED <<connections, audio_queues, conns, enders, ended, audioLog>>
    /\ RegistryIdle

\* ws.send(audio_bytes) / dg_connection.send(audio_bytes) on the connection the
\* thread was started with; raises: whether a send on a closed connection throws
\* (websocket-client does; the Deepgram client may return False instead)
SenderSend(t, raises) ==
    /\ SenderAt(t, "send")
    /\ raises => ~Connected(t.conn)
    /\ (provider = "assemblyai" /\ ~Connected(t.conn)) => raises
    /\ IF raises THEN SenderEnds(t) ELSE SenderMoves(t, "check")
    /\ audioLog' = AudioOp("provider_send", t.session, ~raises, 0,
                           t.session \in ended, conns[t.conn].state)
    /\ UNCHANGED <<connections, audio_queues, conns, enders, ended>>
    /\ RegistryIdle

----------------------------------------------------------------------------
(* Specification of the audio path: one manager, one session *)

AudioSessions == {"s1"}
Chunks == {GoodChunk, BadChunk}

InitAudio ==
    /\ impl = "heroku"
    /\ sessions = EmptyDict
    /\ now = BaseTime
    /\ threads = NoThreads
    /\ lastOp = NoOp
    /\ firedAt = [s \in SessionIds |-> {}]
    /\ provider \in Providers
    /\ ManagerInit
    /\ RestInit

NextAudio ==
    \/ \E s \in AudioSessions, handshake \in Handshakes : StartSessionAssembly(s, handshake)
    \/ \E s \in AudioSessions, started \in {"ok", "false", "raise"} : StartSessionDeepgram(s, started)
    \/ \E id \in 1..MaxConns : OnOpen(id)
    \/ \E id \in 1..MaxConns : ProviderClose(id)
    \/ \E id \in 1..MaxConns : OnClose(id)
    \/ \E s \in AudioSessions : EndSessionBegin(s)
    \/ \E s \in AudioSessions : EndSessionTest(s)
    \/ \E s \in AudioSessions : EndSessionTerminate(s)
    \/ \E s \in AudioSessions : EndSessionClose(s)
    \/ \E s \in AudioSessions, raises \in BOOLEAN : EndSessionFinish(s, raises)
    \/ \E s \in AudioSessions : EndSessionCleanup(s)
    \/ \E s \in AudioSessions, chunk \in Chunks : SendAudio(s, chunk)
    \/ \E t \in senders : SenderCheck(t)
    \/ \E t \in senders : SenderGet(t)
    \/ \E t \in senders : SenderTest(t)
    \/ \E t \in senders, raises \in BOOLEAN : SenderSend(t, raises)

SpecAudio == InitAudio /\ [][NextAudio]_vars

\* the manager's own threads keep running: a sender loop takes its next step,
\* a closed connection's thread calls on_close, an end_session call goes on to
\* its next statement, a connection attempt ends. Nothing is assumed of the
\* callers, nor of the provider once the connection is open.
SenderStep ==
    \E t \in senders : \/ SenderCheck(t) \/ SenderGet(t) \/ SenderTest(t)
                       \/ \E raises \in BOOLEAN : SenderSend(t, raises)

CloseCallbackStep == \E id \in 1..MaxConns : OnClose(id)

\* a connection attempt comes to an end: the handshake succeeds or fails
HandshakeStep ==
    \E id \in 1..MaxConns :
        /\ id <= Len(conns)
        /\ conns[id].state = "connecting"
        /\ (OnOpen(id) \/ ProviderClose(id))

EndSessionStep ==
    \E s \in AudioSessions :
        \/ EndSessionTest(s) \/ EndSessionTerminate(s) \/ EndSessionClose(s)
        \/ (\E raises \in BOOLEAN : EndSessionFinish(s, raises)) \/ EndSessionCleanup(s)

SpecAudioLive ==
    /\ InitAudio
    /\ [][NextAudio]_vars
    /\ WF_vars(SenderStep)
    /\ WF_vars(CloseCallbackStep)
    /\ WF_vars(HandshakeStep)
    /\ WF_vars(EndSessionStep)

----------------------------------------------------------------------------
(* start_session, statement by statement: the managers hold no lock, so the   *)
(* threads a call starts, and other calls, run between its statements         *)

\* from the test `if session_id in self.connections` to the start of the
\* call's thread: the queue is (re)created, the connection object exists, its
\* thread runs (AssemblyAI: ws_thread, which will call on_open or on_close;
\* Deepgram: dg_connection.start(options) has returned and audio_thread runs),
\* and `connections` has not been written yet
StartSessionBegin(s, started) ==
    /\ s \notin DOMAIN enders
    /\ provider = "assemblyai" => started = "ok"
    /\ IF s \in DOMAIN connections
       THEN \* "Session already active": return True
            /\ started = "ok"
            /\ audioLog' = AudioOp("start", s, TRUE, 0, s \in ended, None)
            /\ UNCHANGED <<audio_queues, conns, senders, ended>>
       ELSE /\ Len(conns) < MaxConns
            /\ ended' = ended \ {s}
            /\ audio_queues' = IF started = "raise"
                               THEN Without(audio_queues, s)
                               ELSE With(audio_queues, s, << >>)
            /\ conns' = Append(conns,
                   IF provider = "assemblyai"
                   THEN [NewConn(s, "connecting") EXCEPT !.storing = TRUE]
                   ELSE IF started = "ok"
                   THEN [NewConn(s, "open") EXCEPT !.storing = TRUE]
                   ELSE NewConn(s, "dropped"))
            /\ senders' = IF provider = "deepgram" /\ started = "ok"
                          THEN senders \cup
                               {[conn |-> Len(conns) + 1, session |-> s, pc |-> "check"]}
                          ELSE senders
            /\ audioLog' = IF provider = "deepgram" /\ started # "ok"
                           THEN AudioOp("start", s, FALSE, 0, s \in ended, "dropped")
                           ELSE audioLog
    /\ UNCHANGED <<connections, enders>>
    /\ RegistryIdle

\* "Store connection info": self.connections[session_id] = {...}, whatever
\* entry is there; the call then returns True (AssemblyAI: after its sleep)
StartSessionStore(id) ==
    /\ id \in 1..Len(conns)
    /\ conns[id].storing
    /\ connections' = With(connections, conns[id].session, id)
    /\ conns' = [conns EXCEPT ![id].storing = FALSE]
    /\ audioLog' = AudioOp("start", conns[id].session, TRUE, 0,
                           conns[id].session \in ended, conns[id].state)
    /\ UNCHANGED <<audio_queues, senders, enders, ended>>
    /\ RegistryIdle

NextStartRace ==
    \/ \E s \in AudioSessions, started \in {"ok", "false", "raise"} :
          StartSessionBegin(s, started)
    \/ \E id \in 1..MaxConns : StartSessionStore(id)
    \/ \E id \in 1..MaxConns : OnOpen(id)
    \/ \E id \in 1..MaxConns : ProviderClose(id)
    \/ \E id \in 1..MaxConns : OnClose(id)
    \/ \E s \in AudioSessions : EndSessionBegin(s)
    \/ \E s \in AudioSessions : EndSessionTest(s)
    \/ \E s \in AudioSessions : EndSessionTerminate(s)
    \/ \E s \in AudioSessions : EndSessionClose(s)
    \/ \E s \in AudioSessions, raises \in BOOLEAN : EndSessionFinish(s, raises)
    \/ \E s \in AudioSessions : EndSessionCleanup(s)
    \/ \E s \in AudioSessions : SendAudio(s, GoodChunk)
    \/ \E t \in senders : SenderCheck(t)
    \/ \E t \in senders : SenderGet(t)
    \/ \E t \in senders : SenderTest(t)
    \/ \E t \in senders, raises \in BOOLEAN : SenderSend(t, raises)

SpecStartRace == InitAudio /\ [][NextStartRace]_vars

----------------------------------------------------------------------------
(* Provider messages: AssemblyAI on_message starts one thread per transcript, *)
(* and the thread runs the session's transcript callback                      *)

\* any started thread may be scheduled next
CallbackRunnable(t) == t \in callbacks.pending

\* on_message with a "Turn" that has a transcript: transcript_data stamped with
\* time.time(), callback_thread.start()
OnMessage(id, is_final) ==
    /\ provider = "assemblyai"
    /\ id \in 1..Len(conns)
    /\ Connected(id)
    /\ callbacks.delivered < MaxMessages
    /\ callbacks' = [delivered |-> callbacks.delivered + 1,
                     pending |-> callbacks.pending \cup
                                 {[session |-> conns[id].session,
                                   ts |-> callbacks.delivered + 1,
                                   is_final |-> is_final]}]
    /\ UNCHANGED <<regVars, provider, connections, audio_queues, conns, senders,
                   enders, ended, audioLog, hubVars, summaryCall, capture>>

\* _handle_transcript_callback: the thread runs
\* transcript_callback(transcript_data) = add_transcript_to_session(session_id, ...)
CallbackRun(t) ==
    /\ CallbackRunnable(t)
    /\ callbacks' = [callbacks EXCEPT !.pending = @ \ {t}]
    /\ IF InRegistry(t.session)
       THEN CallbackAppend(t.session, OneWord, t.is_final, t.ts)
       ELSE UNCHANGED <<sessions, lastOp, inbox, emits>>
    /\ UNCHANGED <<impl, now, threads, firedAt, provider, connections, audio_queues,
                   conns, senders, enders, ended, audioLog, rooms, summaryCall, capture>>

InitCallback ==
    /\ impl = "heroku"
    /\ provider = "assemblyai"
    /\ sessions = EmptyDict
    /\ now = BaseTime
    /\ threads = NoThreads
    /\ lastOp = NoOp
    /\ firedAt = [s \in SessionIds |-> {}]
    /\ ManagerInit
    /\ RestInit

NextCallback ==
    \/ \E s \in AudioSessions : CreateSession(s)
    \/ \E s \in AudioSessions, handshake \in Handshakes : StartSessionAssembly(s, handshake)
    \/ \E id \in 1..MaxConns : OnOpen(id)
    \/ \E id \in 1..MaxConns, is_final \in BOOLEAN : OnMessage(id, is_final)
    \/ \E t \in callbacks.pending : CallbackRun(t)
    \/ \E id \in 1..MaxConns : ProviderClose(id)
    \/ \E id \in 1..MaxConns : OnClose(id)
    \/ \E t \in senders : SenderCheck(t)
    \/ \E t \in senders : SenderGet(t)

SpecCallback == InitCallback /\ [][NextCallback]_vars

----------------------------------------------------------------------------
(* Specification of two sessions on one manager: every fault (failed start,  *)
(* connection error or close, end_session) hits session s1, while s2 is      *)
(* started, fed audio and streamed                                           *)

FaultySession == "s1"
HealthySession == "s2"

NextIsolation ==
    \/ \E s \in SessionIds, handshake \in Handshakes :
          (s = HealthySession => handshake # "failed") /\ StartSessionAssembly(s, handshake)
    \/ \E s \in SessionIds, started \in {"ok", "false", "raise"} :
          (s = HealthySession => started = "ok") /\ StartSessionDeepgram(s, started)
    \/ \E id \in 1..MaxConns : OnOpen(id)
    \/ \E id \in 1..MaxConns :
          id <= Len(conns) /\ conns[id].session = FaultySession /\ ProviderClose(id)
    \/ \E id \in 1..MaxConns : OnClose(id)
    \/ EndSessionBegin(FaultySession)
    \/ EndSessionTest(FaultySession)
    \/ EndSessionTerminate(FaultySession)
    \/ EndSessionClose(FaultySession)
    \/ \E raises \in BOOLEAN : EndSessionFinish(FaultySession, raises)
    \/ EndSessionCleanup(FaultySession)
    \/ SendAudio(HealthySession, GoodChunk)
    \/ \E t \in senders : SenderCheck(t)
    \/ \E t \in senders : SenderGet(t)
    \/ \E t \in senders : SenderTest(t)
    \/ \E t \in senders, raises \in BOOLEAN : SenderSend(t, raises)

SpecIsolation == InitAudio /\ [][NextIsolation]_vars

----------------------------------------------------------------------------
(* Session lifecycle: start_session / end_session over WebSocket and REST,   *)
(* with the Deepgram manager the heroku-backend handlers look up as          *)
(* current_app.deepgram_manager                                              *)

\* getattr(current_app, 'deepgram_manager', None)
ManagerAttached == impl = "heroku" /\ provider = "deepgram"

\* the manager's methods are plain functions returning a bool or None
IsAwaitable_Mutant(value) == TRUE
IsAwaitable(value) == FALSE

\* loop.run_until_complete(value): TypeError unless value is a coroutine or Future
RunUntilCompleteRaises(value) == ~IsAwaitable(value)

\* the flag a start handler writes after calling the manager
FlagAfterStart(success) ==
    IF RunUntilCompleteRaises(success) THEN "False"      \* except: ... = False
    ELSE IF success THEN "True" ELSE "False"

\* status and started_at as every start handler writes them
StartRecord(sd, flag) ==
    [sd EXCEPT !.status = "active", !.started_at = now, !.stream_active = flag]

\* the WebSocket end handlers: status, ended_at, and the duration when started_at is set
EndRecord(sd) ==
    [sd EXCEPT !.status = "completed", !.ended_at = now,
               !.duration = IF sd.started_at # NoTime THEN now - sd.started_at ELSE @]

\* DeepgramManager.end_session run to its end by the calling handler; raises:
\* whether dg_connection.finish() throws
DeepgramEnd(s, raises) ==
    /\ provider = "deepgram"
    /\ s \notin DOMAIN enders
    /\ IF s \in DOMAIN connections
       THEN /\ connections' = Without(connections, s)
            /\ conns' = IF conns[connections[s]].state = "dropped"
                        THEN conns
                        ELSE [conns EXCEPT ![connections[s]].state = "closed"]
            /\ audio_queues' = IF raises THEN audio_queues ELSE Without(audio_queues, s)
            /\ audioLog' = AudioOp("end", s, ~raises, 0, s \in ended,
                                   conns[connections[s]].state)
       ELSE /\ ~raises
            /\ audioLog' = AudioOp("end", s, FALSE, 0, s \in ended, None)
            /\ UNCHANGED <<connections, conns, audio_queues>>
    /\ ended' = ended \cup {s}
    /\ UNCHANGED <<senders, enders>>

LifeOp(op, s, sd) ==
    Op(op, s, FALSE, FALSE, FALSE, FinalCount(sd.transcripts), Elapsed(sd), FALSE)

\* src/app handle_start_session: transcription is "handled by Electron"
HandleStartSessionApp(s) ==
    /\ impl = "app"
    /\ IF InRegistry(s)
       THEN /\ sessions' = [sessions EXCEPT ![s] = StartRecord(@, "False")]
            /\ lastOp' = LifeOp("start", s, StartRecord(sessions[s], "False"))
       ELSE \* raise Exception("Session not found"): session_started success False
            /\ lastOp' = Op("start_rejected", s, FALSE, FALSE, FALSE, 0, NoTime, FALSE)
            /\ UNCHANGED sessions
    /\ Emit(Pusher, <<ToSender("session_started", s)>>)
    /\ UNCHANGED <<impl, now, threads, firedAt, audioVars, rooms, summaryCall, capture>>

\* heroku-backend handle_start_session
HandleStartSessionHeroku(s, started) ==
    /\ impl = "heroku"
    /\ IF ~InRegistry(s)
       THEN /\ started = "ok"
            /\ lastOp' = Op("start_rejected", s, FALSE, FALSE, FALSE, 0, NoTime, FALSE)
            /\ UNCHANGED <<sessions, audioVars>>
       ELSE IF ManagerAttached
       THEN LET flag == FlagAfterStart(DeepgramStartResult(s, started))
            IN  /\ DeepgramStart(s, started)
                /\ UNCHANGED <<provider, callbacks>>
                /\ sessions' = [sessions EXCEPT ![s] = StartRecord(@, flag)]
                /\ lastOp' = LifeOp("start", s, StartRecord(sessions[s], flag))
       ELSE \* "Deepgram manager not available"
            /\ started = "ok"
            /\ sessions' = [sessions EXCEPT ![s] = StartRecord(@, "False")]
            /\ lastOp' = LifeOp("start", s, StartRecord(sessions[s], "False"))
            /\ UNCHANGED audioVars
    /\ Emit(Pusher, <<ToSender("session_started", s)>>)
    /\ UNCHANGED <<impl, now, threads, firedAt, rooms, summaryCall, capture>>

\* src/app handle_end_session
HandleEndSessionApp(s) ==
    /\ impl = "app"
    /\ IF InRegistry(s)
       THEN LET sd == [EndRecord(sessions[s]) EXCEPT !.stream_active = "False"]
            IN  /\ sessions' = [sessions EXCEPT ![s] = sd]
                /\ lastOp' = LifeOp("end", s, sd)
       ELSE /\ lastOp' = Op("end_rejected", s, FALSE, FALSE, FALSE, 0, NoTime, FALSE)
            /\ UNCHANGED sessions
    /\ Emit(Pusher, <<ToSender("session_ended", s)>>)
    /\ UNCHANGED <<impl, now, threads, firedAt, audioVars, rooms, summaryCall, capture>>

\* heroku-backend handle_end_session: the flag is written only after
\* run_until_complete(end_session(...)) has returned
HandleEndSessionHeroku(s, raises) ==
    /\ impl = "heroku"
    /\ IF ~InRegistry(s)
       THEN /\ ~raises
            /\ lastOp' = Op("end_rejected", s, FALSE, FALSE, FALSE, 0, NoTime, FALSE)
            /\ UNCHANGED <<sessions, audioVars>>
       ELSE IF ManagerAttached
       THEN LET sd == IF RunUntilCompleteRaises(None)
                      THEN EndRecord(sessions[s])
                      ELSE [EndRecord(sessions[s]) EXCEPT !.stream_active = "False"]
            IN  /\ DeepgramEnd(s, raises)
                /\ UNCHANGED <<provider, callbacks>>
                /\ sessions' = [sessions EXCEPT ![s] = sd]
                /\ lastOp' = LifeOp("end", s, sd)
       ELSE /\ ~raises
            /\ sessions' = [sessions EXCEPT ![s] = EndRecord(@)]
            /\ lastOp' = LifeOp("end", s, EndRecord(sessions[s]))
            /\ UNCHANGED audioVars
    /\ Emit(Pusher, <<ToSender("session_ended", s)>>)
    /\ UNCHANGED <<impl, now, threads, firedAt, rooms, summaryCall, capture>>

\* REST POST /<session_id>/start; authed: both token sets are in the Flask session
RestStartSession(s, authed, started) ==
    /\ impl = "heroku"
    /\ InRegistry(s)                                  \* else 404
    /\ IF ~authed
       THEN \* 401 "Authentication required"
            /\ started = "ok"
            /\ lastOp' = Op("rest_start_rejected", s, FALSE, FALSE, FALSE, 0, NoTime, FALSE)
            /\ UNCHANGED <<sessions, audioVars>>
       ELSE IF ManagerAttached
       THEN LET flag == FlagAfterStart(DeepgramStartResult(s, started))
            IN  /\ DeepgramStart(s, started)
                /\ UNCHANGED <<provider, callbacks>>
                /\ sessions' = [sessions EXCEPT ![s] = StartRecord(@, flag)]
                /\ lastOp' = LifeOp("rest_start", s, StartRecord(sessions[s], flag))
       ELSE /\ started = "ok"
            /\ sessions' = [sessions EXCEPT ![s] = StartRecord(@, "False")]
            /\ lastOp' = LifeOp("rest_start", s, StartRecord(sessions[s], "False"))
            /\ UNCHANGED audioVars
    /\ Emit(Pusher, << >>)
    /\ UNCHANGED <<impl, now, threads, firedAt, rooms, summaryCall, capture>>

\* REST POST /<session_id>/end: status 'ended', no duration
RestEndRecord(sd) == [sd EXCEPT !.status = "ended", !.ended_at = now]

RestEndSession(s, raises) ==
    /\ impl = "heroku"
    /\ InRegistry(s)                                  \* else 404
    /\ IF ManagerAttached
       THEN LET sd == IF RunUntilCompleteRaises(None)
                      THEN RestEndRecord(sessions[s])
                      ELSE [RestEndRecord(sessions[s]) EXCEPT !.stream_active = "False"]
            IN  /\ DeepgramEnd(s, raises)
                /\ UNCHANGED <<provider, callbacks>>
                /\ sessions' = [sessions EXCEPT ![s] = sd]
                /\ lastOp' = LifeOp("rest_end", s, sd)
       ELSE /\ ~raises
            /\ sessions' = [sessions EXCEPT ![s] = RestEndRecord(@)]
            /\ lastOp' = LifeOp("rest_end", s, RestEndRecord(sessions[s]))
            /\ UNCHANGED audioVars
    /\ Emit(Pusher, << >>)
    /\ UNCHANGED <<impl, now, threads, firedAt, rooms, summaryCall, capture>>

----------------------------------------------------------------------------
(* Specification of the lifecycle: one session, both handler sets, the REST  *)
(* routes, the clock, and the attached manager's connection                  *)

LifeSessions == {"s1"}

InitLifecycle ==
    /\ impl \in Impls
    /\ provider \in {"none", "deepgram"}
    /\ impl = "app" => provider = "none"
    /\ sessions = EmptyDict
    /\ now = BaseTime
    /\ threads = NoThreads
    /\ lastOp = NoOp
    /\ firedAt = [s \in SessionIds |-> {}]
    /\ ManagerInit
    /\ RestInit

NextLifecycle ==
    \/ \E s \in LifeSessions : CreateSession(s)
    \/ \E s \in LifeSessions : HandleStartSessionApp(s)
    \/ \E s \in LifeSessions, started \in {"ok", "false", "raise"} : HandleStartSessionHeroku(s, started)
    \/ \E s \in LifeSessions : HandleEndSessionApp(s)
    \/ \E s \in LifeSessions, raises \in BOOLEAN : HandleEndSessionHeroku(s, raises)
    \/ \E s \in LifeSessions, authed \in BOOLEAN, started \in {"ok", "false", "raise"} :
          RestStartSession(s, authed, started)
    \/ \E s \in LifeSessions, raises \in BOOLEAN : RestEndSession(s, raises)
    \/ \E s \in LifeSessions, is_final \in BOOLEAN :
          TotalLines < MaxLifeLines /\ HandleTranscriptLineApp(s, OneWord, is_final)
    \/ \E s \in LifeSessions, is_final \in BOOLEAN :
          TotalLines < MaxLifeLines /\ HandleTranscriptLineHeroku(s, OneWord, is_final)
    \/ \E id \in 1..MaxConns : ProviderClose(id)
    \/ \E t \in senders : SenderCheck(t)
    \/ \E t \in senders : SenderGet(t)
    \/ Tick

SpecLifecycle == InitLifecycle /\ [][NextLifecycle]_vars

\* the writers of the stream-active flag and the events of the connection
NextStreamFlag ==
    \/ \E s \in LifeSessions : CreateSession(s)
    \/ \E s \in LifeSessions : HandleStartSessionApp(s)
    \/ \E s \in LifeSessions, started \in {"ok", "false", "raise"} : HandleStartSessionHeroku(s, started)
    \/ \E s \in LifeSessions : HandleEndSessionApp(s)
    \/ \E s \in LifeSessions, raises \in BOOLEAN : HandleEndSessionHeroku(s, raises)
    \/ \E s \in LifeSessions, authed \in BOOLEAN, started \in {"ok", "false", "raise"} :
          RestStartSession(s, authed, started)
    \/ \E s \in LifeSessions, raises \in BOOLEAN : RestEndSession(s, raises)
    \/ \E id \in 1..MaxConns : ProviderClose(id)
    \/ \E t \in senders : SenderCheck(t)
    \/ \E t \in senders : SenderGet(t)

SpecStreamFlag == InitLifecycle /\ [][NextStreamFlag]_vars

----------------------------------------------------------------------------
(* SalesforceModelsService.generate_meeting_summary: the retry loop          *)

\* self.max_retries
max_retries == 3

NextAttempt_Stuck(attempt) == attempt

\* `for attempt in range(self.max_retries)`: the next value of the loop variable
NextAttempt(attempt) == attempt + 1

\* `for attempt in range(self.max_retries)`: the loop body runs
InRange(attempt) == attempt < max_retries

\* `if attempt < self.max_retries - 1`: another attempt follows a failure
RetryAfter(attempt) == attempt < max_retries - 1

\* what one attempt can meet once it holds a token: a summary, a
\* RequestException from requests.post or raise_for_status, a response without
\* generated text, or another exception before or after the request went out
AttemptOutcomes ==
    {"ok", "request_error", "empty", "unexpected_before", "unexpected_after"}

\* the service is constructed (with the session's token, or with none) and the
\* call enters the loop
SummaryCallBegin(access_token) ==
    /\ summaryCall.pc = "idle"
    /\ summaryCall' = [NoSummaryCall EXCEPT !.pc = "attempt", !.token = access_token]
    /\ UNCHANGED <<regVars, audioVars, hubVars, capture>>

\* _ensure_valid_token for a call whose state is sc; jwt: whether _generate_jwt
\* obtains a token; stale: whether the last check is more than 5 minutes old.
\* The result is <<valid, access_token, last_token_check is set, _generate_jwt
\* was called>>
EnsureValidToken(sc, jwt, stale) ==
    IF sc.token THEN <<TRUE, TRUE, sc.checked, FALSE>>
    ELSE IF ~sc.checked \/ stale THEN <<jwt, jwt, TRUE, TRUE>>
    ELSE <<FALSE, FALSE, TRUE, FALSE>>

\* one pass through the loop body, up to its `continue` or `return`
SummaryCallAttempt(jwt, stale, outcome) ==
    /\ summaryCall.pc = "attempt"
    /\ LET sc      == summaryCall
           tok     == EnsureValidToken(sc, jwt, stale)
           valid   == tok[1]
           met     == IF valid THEN outcome ELSE "no_token"
           called  == valid /\ outcome # "unexpected_before"
           sc1     == [sc EXCEPT !.token = tok[2], !.checked = tok[3],
                                 !.jwts = @ + (IF tok[4] THEN 1 ELSE 0),
                                 !.calls = @ + (IF called THEN 1 ELSE 0),
                                 !.outcomes = Append(@, met)]
       IN  IF ~InRange(sc.attempt)
           THEN \* the loop is exhausted: "Failed to generate summary after ..."
                summaryCall' = [sc EXCEPT !.pc = "returned", !.result = None]
           ELSE IF met = "ok"
           THEN summaryCall' = [sc1 EXCEPT !.pc = "returned", !.result = "summary"]
           ELSE IF RetryAfter(sc.attempt)
           THEN \* time.sleep(self.retry_delay_seconds); continue
                summaryCall' = [sc1 EXCEPT
                                  !.waits = @ + 1,
                                  !.attempt = NextAttempt(@),
                                  !.token = IF met = "request_error" THEN FALSE ELSE @]
           ELSE summaryCall' = [sc1 EXCEPT !.pc = "returned", !.result = None]
    /\ UNCHANGED <<regVars, audioVars, hubVars, capture>>

InitRetry ==
    /\ impl = "heroku"
    /\ sessions = EmptyDict
    /\ now = BaseTime
    /\ threads = NoThreads
    /\ lastOp = NoOp
    /\ firedAt = [s \in SessionIds |-> {}]
    /\ AudioIdle
    /\ RestInit

NextRetry ==
    \/ \E access_token \in BOOLEAN : SummaryCallBegin(access_token)
    \/ \E jwt \in BOOLEAN, stale \in BOOLEAN, outcome \in AttemptOutcomes :
          SummaryCallAttempt(jwt, stale, outcome)

\* the thread that runs the call keeps running: sleeps end, requests time out
SpecRetry == InitRetry /\ [][NextRetry]_vars /\ WF_vars(NextRetry)

----------------------------------------------------------------------------
(* Summarization around the end of a session: the lines, the token, the      *)
(* summary threads and end_session                                           *)

NextLateSummary ==
    \/ /\ LineAllowed("s1", TRUE, MaxSummaryLines)
       /\ HandleTranscriptLineApp("s1", OneWord, TRUE)
    \/ /\ LineAllowed("s1", TRUE, MaxSummaryLines)
       /\ HandleTranscriptLineHeroku("s1", OneWord, TRUE)
    \/ HandleSessionToken("s1")
    \/ ThreadPrepare("s1")
    \/ \E ok \in BOOLEAN : ThreadFinish("s1", ok)
    \/ HandleEndSessionApp("s1")
    \/ \E raises \in BOOLEAN : HandleEndSessionHeroku("s1", raises)

SpecLateSummary == InitSummary /\ [][NextLateSummary]_vars

----------------------------------------------------------------------------
(* src/electron-app/src/python/audio_capture.py: AudioCapture. The stream's   *)
(* thread runs audio_callback, the main thread runs start_capture,            *)
(* stop_capture and get_audio_chunk                                           *)

\* `if len(self.audio_queue) > 100`
MaxBuffered == 100

TrimOldest_OffByOne(q) == IF Len(q) > MaxBuffered + 1 THEN Tail(q) ELSE q

\* "Keep only recent chunks": self.audio_queue.pop(0) when the list is too long
TrimOldest(q) == IF Len(q) > MaxBuffered THEN Tail(q) ELSE q

CaptureIdle == UNCHANGED <<regVars, audioVars, hubVars, summaryCall>>

\* start_capture up to self.stream.start(); ok: a device was found and the
\* stream could be opened and started (else: return, or the exception is raised
\* again)
StartCaptureBegin(ok) ==
    /\ capture.ctl = "idle"
    /\ capture' = IF capture.is_capturing THEN [capture EXCEPT !.op = "start"]
                  ELSE IF ok THEN [capture EXCEPT !.stream = "running",
                                                  !.ctl = "starting", !.op = "start"]
                  ELSE [capture EXCEPT !.op = "start_failed"]
    /\ CaptureIdle

\* self.is_capturing = True
StartCaptureFlag ==
    /\ capture.ctl = "starting"
    /\ capture' = [capture EXCEPT !.is_capturing = TRUE, !.ctl = "idle", !.op = "started"]
    /\ CaptureIdle

\* stop_capture up to self.stream.close(). stream.stop() returns once the
\* stream's thread has left the callback; raises: "stop" (stream.stop() throws,
\* the stream goes on), "close" (stream.close() throws), "no"
StopCaptureBegin(raises) ==
    /\ capture.ctl = "idle"
    /\ IF ~capture.is_capturing
       THEN /\ raises = "no"
            /\ capture' = [capture EXCEPT !.op = "stop"]
       ELSE /\ raises # "stop" => capture.cb = 0
            /\ capture' = CASE raises = "stop"  -> [capture EXCEPT !.op = "stop_failed"]
                            [] raises = "close" -> [capture EXCEPT !.stream = "stopped",
                                                                   !.op = "stop_failed"]
                            [] raises = "no"    -> [capture EXCEPT !.stream = "stopped",
                                                                   !.ctl = "stopping",
                                                                   !.op = "stop"]
    /\ CaptureIdle

\* self.is_capturing = False
StopCaptureFlag ==
    /\ capture.ctl = "stopping"
    /\ capture' = [capture EXCEPT !.is_capturing = FALSE, !.ctl = "idle", !.op = "stopped"]
    /\ CaptureIdle

\* audio_callback up to `with self.lock`: a set status flag returns, a chunk
\* that arrives while is_capturing is false is dropped, any other is converted
\* and waits for the lock
AudioCallbackBegin(status) ==
    /\ capture.stream = "running"
    /\ capture.cb = 0
    /\ IF ~status /\ capture.is_capturing
       THEN /\ capture.accepted < MaxAccepted
            /\ capture' = [capture EXCEPT !.accepted = @ + 1, !.cb = capture.accepted + 1,
                                          !.op = "callback"]
       ELSE capture' = [capture EXCEPT !.op = "callback_dropped"]
    /\ CaptureIdle

\* the body of `with self.lock` in audio_callback: append, then trim
AudioCallbackAppend ==
    /\ capture.cb # 0
    /\ capture' = [capture EXCEPT
                     !.audio_queue = TrimOldest(Append(@, capture.cb)),
                     !.cb = 0, !.op = "append"]
    /\ CaptureIdle

\* get_audio_chunk, under the same lock
GetAudioChunk ==
    /\ capture' = IF capture.audio_queue # << >>
                  THEN [capture EXCEPT !.last = Head(capture.audio_queue),
                                       !.audio_queue = Tail(@), !.op = "get"]
                  ELSE [capture EXCEPT !.last = None, !.op = "get"]
    /\ CaptureIdle

InitCapture ==
    /\ impl = "app"
    /\ sessions = EmptyDict
    /\ now = BaseTime
    /\ threads = NoThreads
    /\ lastOp = NoOp
    /\ firedAt = [s \in SessionIds |-> {}]
    /\ AudioIdle
    /\ RestInit

NextCapture ==
    \/ \E ok \in BOOLEAN : StartCaptureBegin(ok)
    \/ StartCaptureFlag
    \/ \E raises \in {"no", "stop", "close"} : StopCaptureBegin(raises)
    \/ StopCaptureFlag
    \/ \E status \in BOOLEAN : AudioCallbackBegin(status)
    \/ AudioCallbackAppend
    \/ GetAudioChunk

SpecCapture == InitCapture /\ [][NextCapture]_vars

----------------------------------------------------------------------------
(* Subscriptions and the inbound events that are only validated and relayed  *)

\* an inbound event's session id, when the client left it out
NoId == None

\* observation record of a handler that only validates and relays; `complete`
\* tells whether the inbound event carried all its required fields
RelayOp(event, s, complete) ==
    Op(IF complete THEN event ELSE event \o "_incomplete", s,
       FALSE, FALSE, FALSE, 0, NoTime, FALSE)

JoinBacklog_Replay(s) ==
    IF InRegistry(s)
    THEN [i \in 1..Len(sessions[s].transcripts) |-> ToSender("transcript_update", s)]
    ELSE << >>

\* what a join sends the new member besides the acknowledgement: nothing
JoinBacklog(s) == << >>

HandleJoinSession_KnownOnly(c, s) ==
    /\ IF s = NoId \/ ~InRegistry(s)
       THEN /\ Emit(c, <<ToSender("error", s)>>)
            /\ UNCHANGED rooms
       ELSE /\ rooms' = [rooms EXCEPT ![s] = @ \cup {c}]
            /\ Emit(c, JoinBacklog(s) \o <<ToSender("joined_session", s)>>)
    /\ lastOp' = RelayOp("join", s, s # NoId)
    /\ UNCHANGED <<impl, sessions, now, threads, firedAt, audioVars, summaryCall, capture>>

\* join_session (both socket_service modules) and join (src/app): the room is
\* named by whatever id the client sent; the registry is not consulted
HandleJoinSession(c, s) ==
    /\ IF s = NoId
       THEN \* emit('error', {'message': 'Session ID required'})
            /\ Emit(c, <<ToSender("error", s)>>)
            /\ UNCHANGED rooms
       ELSE /\ rooms' = [rooms EXCEPT ![s] = @ \cup {c}]
            /\ Emit(c, JoinBacklog(s) \o <<ToSender("joined_session", s)>>)
    /\ lastOp' = RelayOp("join", s, s # NoId)
    /\ UNCHANGED <<impl, sessions, now, threads, firedAt, audioVars, summaryCall, capture>>

\* leave_session
HandleLeaveSession(c, s) ==
    /\ IF s = NoId
       THEN /\ Emit(c, <<ToSender("error", s)>>)
            /\ UNCHANGED rooms
       ELSE /\ rooms' = [rooms EXCEPT ![s] = @ \ {c}]
            /\ Emit(c, <<ToSender("left_session", s)>>)
    /\ lastOp' = RelayOp("leave", s, s # NoId)
    /\ UNCHANGED <<impl, sessions, now, threads, firedAt, audioVars, summaryCall, capture>>

\* transcript_line without a session id: `if not session_id or not transcript`
HandleTranscriptLineNoId(text, is_final) ==
    /\ Emit(Pusher, <<ToSender("error", NoId)>>)
    /\ lastOp' = Op("ws_rejected", NoId, is_final, FALSE, FALSE, 0, NoTime, FALSE)
    /\ UNCHANGED <<impl, sessions, now, threads, firedAt, audioVars, rooms, summaryCall, capture>>

\* what the client put under 'audio': a chunk, or nothing
NoAudio == None

\* audio_chunk.  src/app: no field is checked, the receipt is broadcast to
\* room=session_id.  heroku-backend: the fields are checked, the chunk handed
\* to the manager when there is one (send_audio runs as the argument of
\* run_until_complete, which then raises into the inner except), and the
\* status broadcast
HandleAudioChunk(s, audio) ==
    /\ IF impl = "app"
       THEN /\ Emit(Pusher, <<ToRoomOf("audio_processing", s)>>)
            /\ UNCHANGED audioVars
       ELSE IF s = NoId \/ audio = NoAudio
       THEN /\ Emit(Pusher, <<ToSender("error", s)>>)
            /\ UNCHANGED audioVars
       ELSE /\ Emit(Pusher, <<ToRoom("audio_processing", s)>>)
            /\ IF ManagerAttached
               THEN /\ ManagerSendAudio(s, audio)
                    /\ UNCHANGED <<provider, callbacks>>
               ELSE UNCHANGED audioVars
    /\ lastOp' = RelayOp("audio_chunk", s, s # NoId /\ audio # NoAudio)
    /\ UNCHANGED <<impl, sessions, now, threads, firedAt, rooms, summaryCall, capture>>

\* session_status; present: whether the event carries 'status'
HandleSessionStatus(s, present) ==
    /\ Emit(Pusher, IF s = NoId \/ ~present
                    THEN <<ToSender("error", s)>>
                    ELSE <<ToRoom("session_status_update", s)>>)
    /\ lastOp' = RelayOp("session_status", s, s # NoId /\ present)
    /\ UNCHANGED <<impl, sessions, now, threads, firedAt, audioVars, rooms, summaryCall, capture>>

\* insight_generated; present: whether the event carries 'insight'
HandleInsightGenerated(s, present) ==
    /\ Emit(Pusher, IF s = NoId \/ ~present
                    THEN <<ToSender("error", s)>>
                    ELSE <<ToRoom("insight_update", s)>>)
    /\ lastOp' = RelayOp("insight_generated", s, s # NoId /\ present)
    /\ UNCHANGED <<impl, sessions, now, threads, firedAt, audioVars, rooms, summaryCall, capture>>

\* session_token without session id or access_token: token_error, return
HandleSessionTokenIncomplete(s) ==
    /\ Emit(Pusher, <<ToSender("token_error", s)>>)
    /\ lastOp' = RelayOp("token", s, FALSE)
    /\ UNCHANGED <<impl, sessions, now, threads, firedAt, audioVars, rooms, summaryCall, capture>>

----------------------------------------------------------------------------
(* Specification of the subscriptions: two subscribers and the pushing       *)
(* client, one session id that may or may not be in the registry             *)

HubSessions == {"s1"}
HubIds == HubSessions \cup {NoId}

\* every subscriber can still take an event
InboxRoom == \A c \in Subscribers : Len(inbox[c]) < MaxInbox

\* no transcription manager is attached to the application
InitHub ==
    /\ InitLifecycle
    /\ provider = "none"

NextHub ==
    \/ \E s \in HubSessions : InboxRoom /\ CreateSession(s)
    \/ \E c \in Subscribers, s \in HubIds : InboxRoom /\ HandleJoinSession(c, s)
    \/ \E c \in Subscribers, s \in HubIds : InboxRoom /\ HandleLeaveSession(c, s)
    \/ \E s \in HubSessions, text \in {OneWord, EmptyText} :
          InboxRoom /\ TotalLines < MaxHubLines /\ HandleTranscriptLineApp(s, text, TRUE)
    \/ \E s \in HubSessions, text \in {OneWord, EmptyText} :
          InboxRoom /\ TotalLines < MaxHubLines /\ HandleTranscriptLineHeroku(s, text, TRUE)

SpecHub == InitHub /\ [][NextHub]_vars

\* the inbound events with required fields, sent with and without them, to a
\* session room with one subscriber coming and going
NextInbound ==
    \/ \E s \in HubSessions : InboxRoom /\ CreateSession(s)
    \/ \E s \in HubIds : InboxRoom /\ HandleJoinSession("c1", s)
    \/ \E s \in HubSessions, text \in {OneWord, EmptyText}, is_final \in BOOLEAN :
          InboxRoom /\ TotalLines < MaxHubLines /\ HandleTranscriptLineApp(s, text, is_final)
    \/ \E s \in HubSessions, text \in {OneWord, EmptyText}, is_final \in BOOLEAN :
          InboxRoom /\ TotalLines < MaxHubLines /\ HandleTranscriptLineHeroku(s, text, is_final)
    \/ \E is_final \in BOOLEAN : InboxRoom /\ HandleTranscriptLineNoId(OneWord, is_final)
    \/ \E s \in HubIds, audio \in {GoodChunk, NoAudio} : InboxRoom /\ HandleAudioChunk(s, audio)
    \/ \E s \in HubIds, present \in BOOLEAN : InboxRoom /\ HandleSessionStatus(s, present)
    \/ \E s \in HubIds, present \in BOOLEAN : InboxRoom /\ HandleInsightGenerated(s, present)
    \/ \E s \in HubIds : InboxRoom /\ HandleSessionTokenIncomplete(s)
    \/ \E s \in HubSessions : InboxRoom /\ HandleSessionToken(s)

SpecInbound == InitLifecycle /\ [][NextInbound]_vars

----------------------------------------------------------------------------
(* Claims about the transcript log and the counts *)

\* the text of a line, under whichever key its path stored it
LineText(t) == IF HasKey(t, "transcript") THEN t.transcript ELSE t.text

RECURSIVE FinalWords(_, _)
\* the words of the final lines of log, from position i on
FinalWords(log, i) ==
    IF i > Len(log) THEN 0
    ELSE (IF log[i].is_final THEN Words(LineText(log[i])) ELSE 0)
         + FinalWords(log, i + 1)

\* C1: in every session, the lines of the transcript log carry the sequence
\* numbers 0, 1, ..., n-1 in log order: every line has one, none is repeated
\* or skipped, whichever of the three paths appended it.
C1_SequenceGapFree ==
    \A s \in DOMAIN sessions :
        \A i \in 1..Len(sessions[s].transcripts) :
            /\ HasKey(sessions[s].transcripts[i], "sequence")
            /\ sessions[s].transcripts[i].sequence = i - 1

\* C2: a session's word_count is the sum of the word counts of exactly its
\* final lines, after any mix of interim and final lines through the three paths.
C2_WordCountIsFinalSum ==
    \A s \in DOMAIN sessions :
        sessions[s].word_count = FinalWords(sessions[s].transcripts, 1)

----------------------------------------------------------------------------
(* Claims about the summary trigger *)

S1 == sessions["s1"]
S1Finals == FinalCount(S1.transcripts)
S1Elapsed == Elapsed(S1)

\* C3: at most one summarization call is in flight per session; a trigger that
\* fires while one is running starts no second call.
C3_OneInFlight ==
    \A s \in SessionIds : threads[s].calling <= 1

\* C4: while the session's elapsed duration is 10 minutes, final lines appended
\* one at a time fire the trigger at final counts 5, 10, 15 and 20 and at no
\* other final count from 1 to 20.
C4_FiresAt_5_10_15_20 ==
    S1Elapsed = 600 =>
        firedAt["s1"] \cap (1..20) = {c \in {5, 10, 15, 20} : c <= S1Finals}

C4_Witness ==
    /\ S1Elapsed = 600
    /\ S1Finals = 20
    /\ lastOp.op = "ws" /\ lastOp.fired /\ lastOp.final_count = 20
    /\ firedAt["s1"] = {5, 10, 15, 20}

\* C5 as stated: a session 90 minutes old (or older) that keeps ingesting final
\* lines fires the trigger at final counts 5, 15 and 25 and at no other count
\* up to 25.
C5_FiresAt_5_15_25 ==
    (S1.started_at # NoTime /\ S1Elapsed >= 5400) =>
        firedAt["s1"] \cap (1..25) = {c \in {5, 15, 25} : c <= S1Finals}

\* C5 amended: under the duration-adaptive handler (heroku-backend), a session
\* 90 minutes old (or older) that keeps ingesting final lines fires the trigger
\* at final count 15 and at no other final count up to 25.
C5_FiresAt_15_Only ==
    (impl = "heroku" /\ S1.started_at # NoTime /\ S1Elapsed >= 5400) =>
        firedAt["s1"] \cap (1..25) = {c \in {15} : c <= S1Finals}

C5_Witness ==
    /\ impl = "heroku"
    /\ S1.started_at # NoTime /\ S1Elapsed > 5400
    /\ S1Finals = 25
    /\ firedAt["s1"] = {15}

\* the cadence the claim assigns to an elapsed duration, given in seconds
ClaimedCadence(elapsed) ==
    IF elapsed <= 30 * 60 THEN 5
    ELSE IF elapsed <= 60 * 60 THEN 10
    ELSE 15

\* C6: on every final line of a started session the trigger fires iff the
\* final count is at least 5 and a multiple of the cadence selected by the
\* elapsed duration d: 5 for d <= 30 min, 10 for 30 < d <= 60 min, 15 for
\* d > 60 min, also just past the boundaries and in both handlers.
C6_CadenceByElapsed ==
    (lastOp.op = "ws" /\ lastOp.is_final /\ lastOp.elapsed # NoTime) =>
        (lastOp.fired <=>
            /\ lastOp.final_count >= 5
            /\ lastOp.final_count % ClaimedCadence(lastOp.elapsed) = 0)

AppendsInterim ==
    /\ Len(S1.transcripts') = Len(S1.transcripts) + 1
    /\ ~S1.transcripts'[Len(S1.transcripts')].is_final

\* C8: appending an interim line never fires the summary trigger and starts no
\* summarization, whatever the final count and the duration.
C8_InterimNeverTriggers ==
    [][AppendsInterim =>
          /\ threads' = threads
          /\ firedAt' = firedAt
          /\ ~lastOp'.evaluated /\ ~lastOp'.fired /\ ~lastOp'.requested]_vars

\* an interim line has just been appended at a final count where a final line fires
C8_Witness ==
    /\ lastOp.op = "ws" /\ ~lastOp.is_final
    /\ lastOp.final_count \in firedAt["s1"]
    /\ lastOp.final_count >= 5
    /\ ~lastOp.fired

----------------------------------------------------------------------------
(* Claims about the audio path *)

\* C9: once end_session(id) has returned (and the session has not been started
\* again), send_audio(id, chunk) returns False, and the sender thread never
\* sends a chunk on a connection that has been closed.
C9_NoAudioAfterEnd ==
    /\ (audioLog.op = "send_audio" /\ audioLog.after_end) => ~audioLog.result
    /\ audioLog.op = "provider_send" => audioLog.conn_state # "closed"

\* the capacities the exploration can fill: a queue is explored up to MaxQueue chunks
TestableCapacities == 1..(MaxQueue - 1)

\* C10: the audio queue has a capacity: no queue ever holds more chunks than
\* that, and send_audio on a queue that holds that many returns False and
\* enqueues nothing.
C10_QueueBounded ==
    \E capacity \in TestableCapacities :
        /\ \A s \in DOMAIN audio_queues : Len(audio_queues[s]) <= capacity
        /\ (audioLog.op = "send_audio" /\ audioLog.queued >= capacity) => ~audioLog.result

\* C11: start_session returns True only for a session whose provider connection
\* is established: a failed or unfinished handshake is reported as False.
C11_StartReportsHandshake ==
    (audioLog.op = "start" /\ audioLog.result) => audioLog.conn_state = "open"

----------------------------------------------------------------------------
(* Claims about the lifecycle *)

\* the connection the manager made last for session s (0: none)
LatestConn(s) ==
    LET ids == {id \in 1..Len(conns) : conns[id].session = s}
    IN  IF ids = {} THEN 0 ELSE CHOOSE id \in ids : \A other \in ids : other <= id

\* the session's provider connection was cut by the provider or the network
Disconnected(s) == LatestConn(s) # 0 /\ conns[LatestConn(s)].state = "dropped"

EmitsTranscriptUpdate(s) ==
    /\ lastOp'.op \in {"ws", "ws_unknown"}
    /\ lastOp'.session = s
    /\ lastOp'.is_final => lastOp'.evaluated
    /\ (lastOp' # lastOp \/ sessions' # sessions)

\* C13: after the provider connection of a session has disconnected, no
\* transcript_update is emitted for that session.
C13_NoUpdateAfterDisconnect ==
    [][\A s \in LifeSessions : Disconnected(s) => ~EmitsTranscriptUpdate(s)]_vars

\* this step is an end handler or the REST end route acting on session s
EndsSession(s) ==
    /\ lastOp'.op \in {"end", "rest_end"}
    /\ lastOp'.session = s
    /\ (lastOp' # lastOp \/ sessions' # sessions)

\* C16: ending a session that was created and never started is refused and
\* leaves status, ended_at and duration as they were.
C16_EndBeforeStartRefused ==
    [][\A s \in DOMAIN sessions :
          (sessions[s].status = "created" /\ EndsSession(s)) =>
             /\ sessions'[s].status = "created"
             /\ sessions'[s].ended_at = sessions[s].ended_at
             /\ sessions'[s].duration = sessions[s].duration]_vars

\* the status moves the lifecycle allows
StatusMoves ==
    {<<"created", "active">>, <<"active", "completed">>,
     <<"created", "error">>, <<"active", "error">>}

\* C17: a status changes only along created -> active -> completed (or to
\* error): a completed session keeps its status, and a start changes the
\* status only of a created session.
C17_StatusMovesForward ==
    [][\A s \in DOMAIN sessions :
          sessions'[s].status # sessions[s].status =>
             <<sessions[s].status, sessions'[s].status>> \in StatusMoves]_vars

\* C18: started_at and ended_at are written at most once, and
\* created_at <= started_at <= ended_at whenever they are set.
C18_TimestampsOnceAndOrdered ==
    [][\A s \in DOMAIN sessions :
          /\ sessions[s].started_at # NoTime => sessions'[s].started_at = sessions[s].started_at
          /\ sessions[s].ended_at # NoTime => sessions'[s].ended_at = sessions[s].ended_at
          /\ sessions'[s].started_at # NoTime => sessions'[s].created_at <= sessions'[s].started_at
          /\ (sessions'[s].started_at # NoTime /\ sessions'[s].ended_at # NoTime)
                => sessions'[s].started_at <= sessions'[s].ended_at]_vars

Statuses == {"created", "active", "completed", "error"}

\* C19: every session of the registry has a status among created, active,
\* completed and error.
C19_StatusInEnum ==
    \A s \in DOMAIN sessions : sessions[s].status \in Statuses

----------------------------------------------------------------------------
(* Claims about teardown and isolation *)

\* C15: once an end_session(id) call has returned, id is in neither
\* `connections` nor `audio_queues`, also when the call ran concurrently with
\* the connection's close callback or met a provider error while closing.
C15_TeardownReleasesBoth ==
    \A s \in ended : s \notin DOMAIN connections /\ s \notin DOMAIN audio_queues

\* everything the manager holds for session s
ManagerView(s) ==
    <<IF s \in DOMAIN connections THEN connections[s] ELSE 0,
      IF s \in DOMAIN audio_queues THEN <<TRUE, audio_queues[s]>> ELSE <<FALSE, << >> >>,
      {t \in senders : t.session = s},
      {<<id, conns[id]>> : id \in {i \in 1..Len(conns) : conns[i].session = s}},
      IF s \in DOMAIN enders THEN <<TRUE, enders[s]>> ELSE <<FALSE, [conn |-> 0, pc |-> ""]>>,
      s \in DOMAIN sessions>>

\* the sender loop of a streaming session is there
SenderAlive(s) ==
    (s \in DOMAIN connections /\ Connected(connections[s])) =>
        \E t \in senders : t.session = s /\ t.conn = connections[s]

\* C14: no step on one session (a connection error or close, a failed start,
\* an end_session) changes what the manager holds for another session, and the
\* other session's sender loop stays in place.
C14_SessionsIsolated ==
    [][/\ \A a, b \in SessionIds :
             (a # b /\ ManagerView(a)' # ManagerView(a)) => ManagerView(b)' = ManagerView(b)
       /\ SenderAlive(HealthySession)']_vars

\* s1's connection has failed and been cleaned up, and s2's sender loop has
\* just forwarded a chunk on s2's open connection
C14_Witness ==
    /\ Disconnected(FaultySession)
    /\ FaultySession \notin DOMAIN connections
    /\ HealthySession \in DOMAIN connections
    /\ Connected(connections[HealthySession])
    /\ audioLog.op = "provider_send"
    /\ audioLog.session = HealthySession
    /\ audioLog.result

\* positions of the log that hold provider lines
ProviderIdx(log) == {i \in 1..Len(log) : HasKey(log[i], "deepgram_timestamp")}

\* C20: the lines coming from the provider stand in the transcript log in the
\* order the provider delivered them.
C20_ProviderLinesInDeliveryOrder ==
    \A s \in DOMAIN sessions :
        \A i, j \in ProviderIdx(sessions[s].transcripts) :
            i < j => sessions[s].transcripts[i].deepgram_timestamp
                       < sessions[s].transcripts[j].deepgram_timestamp

----------------------------------------------------------------------------
(* Claims about subscriptions and inbound events *)

\* this step ran a handler or a thread that reports through lastOp and emits
HubStep == <<sessions, lastOp, hubVars>>' # <<sessions, lastOp, hubVars>>

\* the transcript_update events of session s in a sequence of events
Updates(seq, s) ==
    SelectSeq(seq, LAMBDA e : e.event = "transcript_update" /\ e.session = s)

\* those of them that were emitted to the room
RoomUpdates(seq, s) ==
    SelectSeq(seq, LAMBDA e : e.event = "transcript_update" /\ e.session = s
                              /\ e.to = "room")

\* C21: a subscriber receives a session's transcript_update exactly when one is
\* published while it is a member of the room: joining delivers none of the
\* events published before, and every event published between its join and its
\* leave reaches it, in order.
C21_NoBackfill ==
    [][HubStep =>
         \A c \in Subscribers, s \in SessionIds :
            Updates(inbox'[c], s) =
                Updates(inbox[c], s) \o
                (IF c \in rooms[s] THEN RoomUpdates(emits', s) ELSE << >>)]_vars

\* four lines have been published for s1; c1 joined before the fourth and has
\* received the acknowledgement and that line only
C21_Witness ==
    /\ "s1" \in DOMAIN sessions
    /\ Len(sessions["s1"].transcripts) = 4
    /\ lastOp.op = "ws" /\ lastOp.session = "s1"
    /\ emits = <<ToRoom("transcript_update", "s1")>>
    /\ "c1" \in rooms["s1"]
    /\ inbox["c1"] = <<ToSender("joined_session", "s1"), ToRoom("transcript_update", "s1")>>

\* client c has just run join_session / join for the id s
JoinRan(c, s) ==
    /\ lastOp'.op = "join"
    /\ lastOp'.session = s
    /\ inbox'[c] # inbox[c]

\* the events a sequence holds that went to the room s
RoomEvents(seq, s) ==
    SelectSeq(seq, LAMBDA e : e.to = "room" /\ e.session = s)

\* C22: joining with an id that is not in the registry puts the client in the
\* room, answers joined_session and no error, leaves the registry as it is, and
\* every event published to that room afterwards reaches the client.
C22_JoinUnknownSucceeds ==
    [][\A c \in Subscribers, s \in SessionIds :
          /\ (JoinRan(c, s) /\ ~InRegistry(s)) =>
                /\ c \in rooms'[s]
                /\ emits' = <<ToSender("joined_session", s)>>
                /\ sessions' = sessions
          /\ (HubStep /\ ~InRegistry(s) /\ c \in rooms[s] /\ lastOp'.op # "leave") =>
                RoomEvents(inbox'[c], s) = RoomEvents(inbox[c], s) \o RoomEvents(emits', s)]_vars

\* c1 sits in the room of an id the registry does not know and has received a
\* line published for it
C22_Witness ==
    /\ "s1" \notin DOMAIN sessions
    /\ "c1" \in rooms["s1"]
    /\ inbox["c1"] = <<ToSender("joined_session", "s1"), ToRoom("transcript_update", "s1")>>

\* this step is a transcript_line handler run on a line for session s
LineRan(s) ==
    /\ lastOp'.op \in {"ws", "ws_unknown"}
    /\ lastOp'.session = s
    /\ HubStep

\* C23: a transcript line for an id that is not in the registry changes
\* nothing in the registry and publishes no transcript_update for that id.
C23_UnknownLineIsNoOp ==
    [][\A s \in SessionIds :
          (~InRegistry(s) /\ LineRan(s)) =>
             /\ sessions' = sessions
             /\ RoomUpdates(emits', s) = << >>]_vars

\* what the handlers report for an inbound event that lacks a required field
IncompleteOps ==
    {"ws_rejected", "audio_chunk_incomplete", "session_status_incomplete",
     "insight_generated_incomplete", "token_incomplete"}

ErrorEvents == {"error", "token_error"}

\* C24: an inbound transcript_line, audio_chunk, session_status,
\* insight_generated or session_token that lacks a required field is answered
\* with an error event to the sender, changes no session record and sends
\* nothing to a room.
C24_IncompleteRejected ==
    [][(HubStep /\ lastOp'.op \in IncompleteOps) =>
          /\ sessions' = sessions
          /\ \E i \in 1..Len(emits') :
                emits'[i].event \in ErrorEvents /\ emits'[i].to = "sender"
          /\ \A i \in 1..Len(emits') : emits'[i].to # "room"]_vars

----------------------------------------------------------------------------
(* Claims about summarization *)

\* C25: one generate_meeting_summary call makes at most 3 requests to the
\* summarization API, has slept once for every failed attempt that another
\* attempt follows, and always returns: a summary, or None.
C25_SummaryCallBounded ==
    /\ [](summaryCall.calls <= 3)
    /\ [](summaryCall.waits = summaryCall.attempt)
    /\ [](summaryCall.pc = "returned" => summaryCall.result \in {"summary", None})
    /\ [](summaryCall.pc = "attempt" => <>(summaryCall.pc = "returned"))

\* three attempts, each met by a failed request, and the call has returned None
C25_Witness ==
    /\ summaryCall.pc = "returned"
    /\ summaryCall.result = None
    /\ summaryCall.calls = 3
    /\ summaryCall.waits = 2
    /\ summaryCall.outcomes = <<"request_error", "request_error", "request_error">>

HasEvent(seq, event) == \E i \in 1..Len(seq) : seq[i].event = event

\* a step in which a triggered summarization ends without a summary: the
\* thread returns before the call, the call returns None, or the synchronous
\* trigger of src/app ends without summary_generated
SummarizationFails ==
    \/ ThreadPrepare("s1") /\ ~lastOp'.requested
    \/ ThreadFinish("s1", FALSE)
    \/ /\ impl = "app"
       /\ lastOp'.op \in {"ws", "manual"}
       /\ lastOp'.op = "ws" => lastOp'.fired
       /\ <<lastOp, sessions, emits, inbox>>' # <<lastOp, sessions, emits, inbox>>
       /\ ~HasEvent(emits', "summary_generated")

\* C26: whenever a triggered summarization ends without a summary, the step
\* publishes a summary_error event that carries the session id.
C26_FailurePublishesError ==
    [][SummarizationFails =>
          \E i \in 1..Len(emits') : /\ emits'[i].event = "summary_error"
                                     /\ emits'[i].session = "s1"]_vars

\* a summarization of the heroku thread, or a manual one, that ends without a
\* summary
StoredSummarizationFails ==
    \/ ThreadPrepare("s1") /\ ~lastOp'.requested
    \/ ThreadFinish("s1", FALSE)
    \/ HandleManualSummary("s1") /\ ~HasEvent(emits', "summary_generated")

\* C27: a summarization that fails leaves the registry as it was: the stored
\* meeting summary, the transcript log, the counts and the status.
C27_FailureLeavesSession ==
    [][StoredSummarizationFails => sessions' = sessions]_vars

\* the call of a thread returned None for a session that holds six final
\* lines, a token and no generated summary: it still holds no generated summary
C27_Witness ==
    /\ impl = "heroku"
    /\ lastOp.op = "thread_done"
    /\ threads["s1"].calling = 0
    /\ sessions["s1"].oauth_token
    /\ FinalCount(sessions["s1"].transcripts) = 6
    /\ ~sessions["s1"].meeting_summary.generated
    /\ sessions["s1"].meeting_summary.finalTranscriptCount = 6

SummaryEvents == {"summary_generated", "summary_error", "meeting_summary_update"}

\* C28: the transcript_update of a line is published before any summary event
\* that the line's trigger causes: among the events of one transcript_line
\* handler, no summary event precedes the transcript_update.
C28_UpdateBeforeSummary ==
    lastOp.op = "ws" =>
        \A i \in 1..Len(emits), j \in 1..Len(emits) :
            (emits[i].event \in SummaryEvents /\ emits[j].event = "transcript_update")
                => j < i

Finished == {"completed", "error"}

\* C29: when the call of a summary thread returns for a session that is already
\* completed (or in error), the stored summary stays as it is and no summary
\* update event is published.
C29_LateResultDiscarded ==
    [][((\E ok \in BOOLEAN : ThreadFinish("s1", ok))
          /\ sessions["s1"].status \in Finished)
       => /\ sessions'["s1"].meeting_summary = sessions["s1"].meeting_summary
          /\ ~HasEvent(emits', "meeting_summary_update")]_vars

\* C30: a stored summary that came from the provider carries
\* finalTranscriptCount, and the count is one at which a summarization was
\* triggered, not a later one.
C30_SummaryStamped ==
    \A s \in DOMAIN sessions :
        sessions[s].meeting_summary.generated =>
            /\ sessions[s].meeting_summary.hasFinalTranscriptCount
            /\ sessions[s].meeting_summary.finalTranscriptCount \in firedAt[s]

----------------------------------------------------------------------------
(* Claims about the transcription managers under concurrent calls *)

\* the connections of session s whose socket is open or opening
LiveConns(s) ==
    {id \in 1..Len(conns) : conns[id].session = s /\ conns[id].state \in {"connecting", "open"}}

\* C31: at any time a session id has at most one provider connection that is
\* open or opening, also when start_session calls for the id overlap.
C31_OneConnectionPerSession ==
    \A s \in SessionIds : Cardinality(LiveConns(s)) <= 1

\* C32: after a start request the session is active only if the transcription
\* link was attached: a start handler that leaves the stream-active flag other
\* than True leaves the status other than 'active'.
C32_ActiveOnlyWhenAttached ==
    \A s \in DOMAIN sessions :
        (lastOp.op \in {"start", "rest_start"} /\ lastOp.session = s
            /\ sessions[s].stream_active # "True")
        => sessions[s].status # "active"

\* the sender loops (_stream_audio threads) that serve session s
SendersOf(s) == {t \in senders : t.session = s}

\* a start_session call for s is between its thread start and its store
Starting(s) == \E id \in 1..Len(conns) : conns[id].session = s /\ conns[id].storing

\* C33: while a session is in `connections`, its connection is open and neither
\* a start_session nor an end_session call for it is under way, exactly one
\* sender loop runs for it, and that loop belongs to the stored connection.
C33_OneSenderWhileOpen ==
    \A s \in DOMAIN connections :
        (Connected(connections[s]) /\ s \notin DOMAIN enders /\ ~Starting(s))
        => /\ Cardinality(SendersOf(s)) = 1
           /\ \A t \in SendersOf(s) : t.conn = connections[s]

\* send_audio(s, chunk) queues a well-formed chunk and returns True
Accepting(s) == s \in DOMAIN connections /\ s \in DOMAIN audio_queues

\* C34: accepted chunks are sent: the manager does not stay for ever in a state
\* where send_audio accepts chunks for a session that has no sender loop.
C34_NoAcceptingWithoutSender ==
    []<>~(Accepting("s1") /\ SendersOf("s1") = {})

\* C35: in the AssemblyAI manager a session id in `connections` is also in
\* `audio_queues` and the connection stored for it has not been closed, once
\* the close callback of a closed socket has run and no end_session call for
\* the id is under way.
C35_ActiveMeansQueueAndOpen ==
    provider = "assemblyai" =>
        \A s \in DOMAIN connections :
            (conns[connections[s]].on_close # "pending" /\ s \notin DOMAIN enders)
            => /\ s \in DOMAIN audio_queues
               /\ conns[connections[s]].state \in {"connecting", "open"}

\* C36: after a start_session that returned False the manager holds nothing
\* for the session: the id is in neither `connections` nor `audio_queues`.
C36_FailedStartHoldsNothing ==
    (audioLog.op = "start" /\ ~audioLog.result)
    => /\ audioLog.session \notin DOMAIN connections
       /\ audioLog.session \notin DOMAIN audio_queues

----------------------------------------------------------------------------
(* Claims about the counters, the capture buffer and the token *)

\* C37: every session's transcript_count equals the number of lines in its
\* transcript log.
C37_CountIsLogLength ==
    \A s \in DOMAIN sessions :
        sessions[s].transcript_count = Len(sessions[s].transcripts)

\* the chunks of the buffer are in arrival order
InArrivalOrder(q) == \A i \in 1..Len(q), j \in 1..Len(q) : i < j => q[i] < q[j]

\* C38: the capture buffer never holds more than 100 chunks once a callback has
\* returned, and holds its chunks in arrival order; a chunk that arrives at a
\* full buffer pushes out the oldest one; no chunk is appended while
\* is_capturing is false; get_audio_chunk returns the oldest chunk and removes
\* it, or returns None from an empty buffer.
C38_CaptureBufferBounded ==
    /\ [](Len(capture.audio_queue) <= 100 /\ InArrivalOrder(capture.audio_queue))
    /\ [][capture'.op = "append" =>
            /\ capture.is_capturing
            /\ capture'.audio_queue =
                 IF Len(capture.audio_queue) = 100
                 THEN Append(Tail(capture.audio_queue), capture.cb)
                 ELSE Append(capture.audio_queue, capture.cb)]_vars
    /\ [][capture'.op = "get" =>
            IF capture.audio_queue = << >>
            THEN capture'.last = None /\ capture'.audio_queue = << >>
            ELSE /\ capture'.last = Head(capture.audio_queue)
                 /\ capture'.audio_queue = Tail(capture.audio_queue)]_vars

\* 102 chunks were accepted and none taken: the buffer holds the last 100
C38_Witness ==
    /\ capture.op = "append"
    /\ capture.accepted = 102
    /\ Len(capture.audio_queue) = 100
    /\ Head(capture.audio_queue) = 3
    /\ capture.audio_queue[100] = 102

\* C39: every attempt of generate_meeting_summary that starts without an access
\* token calls _generate_jwt.
C39_TokenlessAttemptAcquires ==
    [][(/\ summaryCall.pc = "attempt"
        /\ InRange(summaryCall.attempt)
        /\ ~summaryCall.token
        /\ summaryCall' # summaryCall)
       => summaryCall'.jwts = summaryCall.jwts + 1]_vars

====
